---- MODULE Spec2Model ----
(***************************************************************************)
(* Model of the NASL tree-walking interpreter with cooperative forking     *)
(* (nasl-interpreter/src/interpreter.rs) and of its statement driver       *)
(* CodeInterpreter (nasl-interpreter/src/fork_interpreter.rs).             *)
(*                                                                         *)
(* Three specifications share the variables:                               *)
(*   Spec      a CodeInterpreter driving one script, through next_ or      *)
(*             through stream();                                           *)
(*   SpecApi   a client calling the methods of one Interpreter (a root or  *)
(*             a fork sibling) in any order;                               *)
(*   SpecRetry one call of retry_resolve against a loader and a storage    *)
(*             that fail as the environment decides.                       *)
(***************************************************************************)
EXTENDS Integers, Sequences, FiniteSets, TLC

VARIABLES
    code,         \* the statements the lexer yields, in source order
    lexer,        \* number of statements the lexer has yielded so far
    interpreter,  \* the Interpreter (with its forked_interpreter, recursively)
    statement,    \* CodeInterpreter.statement: 0 = None, i = Some(code[i])
    kb,           \* the storage's knowledge base: the values stored under KbKey
    plan,         \* outcomes the loader and the storage give to the next requests
    driver,       \* who calls: "next_", "stream", "api", "retry", "resolve",
                  \* "update", "replace", "functions" or "scanner"
    ended,        \* the driver has returned None
    trace,        \* history: one entry per result the driver has yielded
    call,         \* history: the last method call of SpecApi / SpecRetry
    update,       \* the feed updater (Update) with its verifier, loader, storage
    replacer,     \* a call of CodeReplacer::replace: source, commands, result
    functions,    \* the function register: its builder, its modules, the last call
    scanner       \* the openvas Scanner: its running scans and the calls made on it

vars == <<code, lexer, interpreter, statement, kb, plan, driver, ended, trace, call,
          update, replacer, functions, scanner>>

-----------------------------------------------------------------------------
(* Bounds of the model.                                                    *)

MaxStmts == 3        \* statements of a driven script
MaxPlan == 4         \* outcomes planned by the environment of SpecRetry
MaxAttempts == 3     \* largest max_attempts a caller of SpecRetry passes
MaxOrdinal == 3      \* SpecApi stops advancing the cursor at this ordinal
MaxSiblings == 2     \* SpecApi stops forking at this many siblings
MaxFiles == 2        \* entries the verifier of SpecUpdate yields
MaxPieces == 2       \* pieces a source of SpecReplace is made of
MaxCommands == 1     \* commands a call of SpecReplace passes
MaxCalls == 1        \* pieces in a source of the rewriter with parameter operations
MaxFollowUps == 1    \* commands after the first one in a command list
MaxModules == 3      \* modules a caller of SpecLookup pushes to the register builder
MaxScanCalls == 2    \* calls of stop_scan and delete_scan made on a Scanner

(* max_attempts passed by CodeInterpreter to retry_resolve(_next).         *)
DriverAttempts == 5

(* max_attempts passed by feed_version to retry_resolve_next.              *)
FeedVersionAttempts == 3

-----------------------------------------------------------------------------
(* NaslValue.  One record shape for every variant.                         *)

Null == [t |-> "Null", n |-> 0, s |-> ""]
Number(i) == [t |-> "Number", n |-> i, s |-> ""]
String(x) == [t |-> "String", n |-> 0, s |-> x]
NaslExit(rc) == [t |-> "Exit", n |-> rc, s |-> ""]
NaslReturn(v) == [t |-> "Return", n |-> v.n, s |-> v.s]
NaslBreak == [t |-> "Break", n |-> 0, s |-> ""]
NaslContinue == [t |-> "Continue", n |-> 0, s |-> ""]

(* The values that make a Block return at once.                            *)
IsControl(v) == v.t \in {"Exit", "Return", "Break", "Continue"}

(* bool::from(NaslValue)                                                   *)
Truthy(v) ==
    CASE v.t = "Number" -> v.n # 0
      [] v.t = "String" -> v.s # ""
      [] OTHER -> FALSE

(* InterpretResult: Ok(v) or Err(kind).                                    *)
Ok(v) == [ok |-> TRUE, v |-> v, e |-> ""]
Err(kind) == [ok |-> FALSE, v |-> Null, e |-> kind]

(* Statement: kind, token (a name or a literal) and children.              *)
Primitive(v) == [k |-> "Primitive", name |-> "", val |-> v, c |-> <<>>]
Call(f, args) == [k |-> "Call", name |-> f, val |-> Null, c |-> args]
Assign(x, e) == [k |-> "Assign", name |-> x, val |-> Null, c |-> <<e>>]
Include(e) == [k |-> "Include", name |-> "", val |-> Null, c |-> <<e>>]
Block(stmts) == [k |-> "Block", name |-> "", val |-> Null, c |-> stmts]
Exit(e) == [k |-> "Exit", name |-> "", val |-> Null, c |-> <<e>>]
Return(e) == [k |-> "Return", name |-> "", val |-> Null, c |-> <<e>>]
Variable(x) == [k |-> "Variable", name |-> x, val |-> Null, c |-> <<>>]
If(cond, then) == [k |-> "If", name |-> "", val |-> Null, c |-> <<cond, then>>]
Break == [k |-> "Break", name |-> "", val |-> Null, c |-> <<>>]
Continue == [k |-> "Continue", name |-> "", val |-> Null, c |-> <<>>]
NoOp == [k |-> "NoOp", name |-> "", val |-> Null, c |-> <<>>]

KbKey == "test"
Names == {"x", "y", "PLUGIN_SET"}

SetKb(i) == Call("set_kb_item", <<Primitive(String(KbKey)), Primitive(Number(i))>>)
GetKb == Call("get_kb_item", <<Primitive(String(KbKey))>>)
Display(e) == Call("display", <<e>>)

(* What the loader returns for include("inc").                             *)
IncCode == <<Assign("y", Primitive(Number(7)))>>
IncStmt == Include(Primitive(String("inc")))

(* What nasl_syntax::parse yields for the code of a key: statements, and   *)
(* SyntaxErrorItem where the code does not parse.                          *)
SyntaxErrorItem == [k |-> "SyntaxError", name |-> "", val |-> Null, c |-> <<>>]
FileCode(key) ==
    CASE key = "two" -> <<Assign("x", Primitive(Number(1))), SetKb(2),
                          Assign("y", Primitive(Number(2)))>>
      [] key = "bad" -> <<Assign("x", Primitive(Number(1))), SyntaxErrorItem,
                          Assign("y", Primitive(Number(2)))>>
      [] OTHER -> IncCode

-----------------------------------------------------------------------------
(* Position, Register and Interpreter.                                     *)

PositionNew(index) == <<index>>
Up(position) == Append(position, 0)
Down(position) == IF position = <<>> THEN <<>> ELSE SubSeq(position, 1, Len(position) - 1)

RootFrame == [n \in Names |-> Null]
RegisterDefault == <<RootFrame>>

(* A frame pushed by create_child binds nothing yet.                       *)
Unbound == [t |-> "Unbound", n |-> 0, s |-> ""]
ChildFrame == [n \in Names |-> Unbound]
CreateChild(reg) == Append(reg, ChildFrame)
DropLast(reg) == IF reg = <<>> THEN reg ELSE SubSeq(reg, 1, Len(reg) - 1)

(* Register::named: the innermost frame that binds the name.               *)
Named(reg, name) ==
    LET bound == {i \in 1..Len(reg) : reg[i][name] # Unbound}
    IN  IF bound = {} THEN Null
        ELSE reg[CHOOSE i \in bound : \A j \in bound : j <= i][name]

(* Context: of its fields the model keeps the cancellation signal.         *)
ContextNew(cancelled) == [cancelled |-> cancelled]

NoSkip == [set |-> FALSE, p |-> <<>>, v |-> Null]
SkipAt(p, v) == [set |-> TRUE, p |-> p, v |-> v]

(* born and hist are history: the statement during which the interpreter   *)
(* was created, and the statements the driver had it resolve, with the way *)
(* each was answered.                                                      *)
InterpreterNew(register, ctxconfigs) ==
    [registrat |-> register,
     ctxconfigs |-> ctxconfigs,
     position |-> PositionNew(0),
     skip_until_return |-> NoSkip,
     forked_interpreter |-> <<>>,
     forked_interpreter_index |-> 0,
     born |-> 1,
     hist |-> <<>>]

-----------------------------------------------------------------------------
(* Evaluation.  An evaluation state s carries the interpreter (in), the    *)
(* storage (kb), the environment's plan, the include depth (lvl), and as   *)
(* history the statement being driven (cur) and the events of the current  *)
(* call (ev).  Every resolve appends one event when it returns: the depth  *)
(* of its cursor, the statement kind, how it answered (evaluated, skipped  *)
(* with Null, or emitted the stored fork value) and the error kind it      *)
(* returned ("" for none).  Every request to the loader or the storage     *)
(* appends one event with its outcome.  origin is the origin of the        *)
(* InterpretError in flight: <<>> for None, <<stmt>> for Some(stmt); an    *)
(* event keeps the statement resolved (st) and the origin returned (o),    *)
(* the number of resolves it was nested in (cd, counted in dep), the value *)
(* returned (v), the cursor before and after (p0, p1) and the register     *)
(* before and after (reg0, reg1).                                          *)

EvalState(in, k, p, cur) ==
    [in |-> in, kb |-> k, plan |-> p, lvl |-> 0, cur |-> cur, ev |-> <<>>,
     origin |-> <<>>, dep |-> 0]

Event(s, stmt, how, r) ==
    [lvl |-> s.lvl, d |-> Len(s.in.position) + 1, k |-> stmt.k, name |-> stmt.name,
     how |-> how, e |-> r.e, st |-> stmt, o |-> <<>>,
     f0 |-> Len(s.in.registrat), f1 |-> Len(s.in.registrat),
     cd |-> s.dep, v |-> r.v, p0 |-> s.in.position, p1 |-> s.in.position,
     reg0 |-> s.in.registrat, reg1 |-> s.in.registrat]

(* The outcome the loader or the storage gives to the next request.        *)
Outcome(s) == IF s.plan = <<>> THEN "Ok" ELSE Head(s.plan)
Consume(s, what) ==
    [s EXCEPT !.plan = IF @ = <<>> THEN @ ELSE Tail(@),
              !.ev = Append(@, [lvl |-> s.lvl, d |-> 0, k |-> "Request", name |-> what,
                                how |-> "io", e |-> IF Outcome(s) = "Ok" THEN ""
                                                    ELSE Outcome(s),
                                st |-> NoOp, o |-> <<>>,
                                f0 |-> Len(s.in.registrat), f1 |-> Len(s.in.registrat),
                                cd |-> s.dep, v |-> Null, p0 |-> s.in.position,
                                p1 |-> s.in.position, reg0 |-> s.in.registrat,
                                reg1 |-> s.in.registrat])]

(* set_kb_item: dispatches Field::KB; only unique values are pushed.       *)
SetKbItem(s, args) ==
    LET o == Outcome(s)
        s1 == Consume(s, "dispatch")
        has == \E i \in 1..Len(s.kb) : s.kb[i] = args[2]
    IN  IF o # "Ok" THEN [s |-> s1, r |-> Err(o), fork |-> <<>>]
        ELSE [s |-> [s1 EXCEPT !.kb = IF has THEN @ ELSE Append(@, args[2])],
              r |-> Ok(Null), fork |-> <<>>]

(* get_kb_item: retrieves the values under the key and returns them as     *)
(* NaslValue::Fork.                                                        *)
GetKbItem(s, args) ==
    LET o == Outcome(s)
        s1 == Consume(s, "retrieve")
    IN  IF o # "Ok" THEN [s |-> s1, r |-> Err(o), fork |-> <<>>]
        ELSE [s |-> s1, r |-> Ok(Null),
              fork |-> IF args[1] = String(KbKey) THEN s.kb ELSE <<>>]

(* lookup + execute of the standard functions the scripts of the model use *)
NaslFnExecute(s, name, args) ==
    CASE name = "set_kb_item" -> SetKbItem(s, args)
      [] name = "get_kb_item" -> GetKbItem(s, args)
      [] OTHER -> [s |-> s, r |-> Ok(Null), fork |-> <<>>]

(* ForkSibling with a new register instead of a clone of the creator's.    *)
ForkSiblingNewRegister(s, v) ==
    [registrat |-> RegisterDefault,
     ctxconfigs |-> s.in.ctxconfigs,
     position |-> s.in.position,
     skip_until_return |-> SkipAt(s.in.position, v),
     forked_interpreter |-> <<>>,
     forked_interpreter_index |-> 0,
     born |-> s.cur,
     hist |-> <<>>]

(* A sibling interpreter for one alternative value of a fork: a clone of   *)
(* the register and of the cursor, told to return v at the fork's cursor.  *)
ForkSibling(s, v) ==
    [registrat |-> s.in.registrat,
     ctxconfigs |-> s.in.ctxconfigs,
     position |-> s.in.position,
     skip_until_return |-> SkipAt(s.in.position, v),
     forked_interpreter |-> <<>>,
     forked_interpreter_index |-> 0,
     born |-> s.cur,
     hist |-> <<>>]

(* Fork(vs): the caller sees vs[0]; one sibling is spawned per vs[i > 0].  *)
ForkCall(s, vs) ==
    IF vs = <<>> THEN [s |-> s, r |-> Ok(Null)]
    ELSE [s |-> [s EXCEPT !.in.forked_interpreter =
                     @ \o [i \in 1..(Len(vs) - 1) |-> ForkSibling(s, vs[i + 1])]],
          r |-> Ok(vs[1])]

RECURSIVE Resolve(_, _), ResolveArgs(_, _, _, _), ResolveAll(_, _, _),
          ResolveBlock(_, _, _)

(* Register: insertion targets the innermost frame.                        *)
RegisterAdd(reg, name, v) == [reg EXCEPT ![Len(reg)] = [@ EXCEPT ![name] = v]]

(* Call: evaluate the arguments in order, run the function in a call frame *)
(* that is popped again, then fan out a Fork result.                       *)
EvalCall(s, stmt) ==
    LET a == ResolveArgs(s, stmt.c, 1, <<>>)
    IN  IF ~a.r.ok THEN [s |-> a.s, r |-> a.r]
        ELSE LET x == NaslFnExecute(a.s, stmt.name, a.vals)
             IN  IF x.r.ok /\ stmt.name = "get_kb_item"
                 THEN ForkCall(x.s, x.fork)
                 ELSE [s |-> x.s, r |-> x.r]

ResolveArgs(s, args, i, vals) ==
    IF i > Len(args) THEN [s |-> s, r |-> Ok(Null), vals |-> vals]
    ELSE LET a == Resolve(s, args[i])
         IN  IF ~a.r.ok THEN [s |-> a.s, r |-> a.r, vals |-> vals]
             ELSE ResolveArgs(a.s, args, i + 1, Append(vals, a.r.v))

(* Assign (=): evaluate the right side, bind it, yield it.                 *)
EvalAssign(s, stmt) ==
    LET a == Resolve(s, stmt.c[1])
    IN  IF ~a.r.ok THEN a
        ELSE [s |-> [a.s EXCEPT !.in.registrat = RegisterAdd(@, stmt.name, a.r.v)],
              r |-> a.r]

RECURSIVE ResolveAllToEnd(_, _, _)
(* ResolveAll resolving every statement of the file and returning the      *)
(* first error afterwards (map(..).collect() before find).                 *)
ResolveAllToEnd(s, stmts, i) ==
    IF i > Len(stmts) THEN [s |-> s, r |-> Ok(Null)]
    ELSE IF stmts[i].k = "SyntaxError"
    THEN LET Keep(b) == [s |-> b.s, r |-> Err("IncludeSyntaxError")]
         IN  Keep(ResolveAllToEnd(s, stmts, i + 1))
    ELSE LET First(a) ==
                 LET Keep(b) == IF a.r.ok THEN b ELSE [s |-> b.s, r |-> a.r]
                 IN  Keep(ResolveAllToEnd(a.s, stmts, i + 1))
         IN  First(Resolve(s, stmts[i]))

(* The statements of an included file, resolved in order by the child      *)
(* interpreter until the first error (map(..).find(is_err)); what does not *)
(* parse is an IncludeSyntaxError.                                         *)
ResolveAll(s, stmts, i) ==
    IF i > Len(stmts) THEN [s |-> s, r |-> Ok(Null)]
    ELSE IF stmts[i].k = "SyntaxError" THEN [s |-> s, r |-> Err("IncludeSyntaxError")]
    ELSE LET a == Resolve(s, stmts[i])
         IN  IF ~a.r.ok THEN a ELSE ResolveAll(a.s, stmts, i + 1)

(* EvalInclude working on the register of the including interpreter       *)
(* itself: what the included statements bind stays when one of them        *)
(* fails.                                                                  *)
EvalIncludeSharedRegister(s, stmt) ==
    LET a == Resolve(s, stmt.c[1])
    IN  IF ~a.r.ok THEN a
        ELSE IF a.r.v.t # "String"
             THEN [s |-> [a.s EXCEPT !.origin = <<stmt.c[1]>>], r |-> Err("Unsupported")]
        ELSE LET o == Outcome(a.s)
                 s1 == Consume(a.s, "load")
             IN  IF o # "Ok" THEN [s |-> s1, r |-> Err(o)]
                 ELSE LET inter == InterpreterNew(s1.in.registrat, s1.in.ctxconfigs)
                          b == ResolveAll([s1 EXCEPT !.in = inter, !.lvl = @ + 1],
                                          FileCode(a.r.v.s), 1)
                          back == [b.s EXCEPT !.in = s1.in, !.lvl = s1.lvl]
                      IN  IF ~b.r.ok
                          THEN [s |-> [back EXCEPT !.in.registrat = b.s.in.registrat],
                                r |-> b.r]
                          ELSE [s |-> [back EXCEPT !.in.registrat = b.s.in.registrat],
                                r |-> Ok(Null)]

(* Interpreter::include                                                    *)
EvalInclude(s, stmt) ==
    LET a == Resolve(s, stmt.c[1])
    IN  IF ~a.r.ok THEN a
        ELSE IF a.r.v.t # "String"
             THEN [s |-> [a.s EXCEPT !.origin = <<stmt.c[1]>>], r |-> Err("Unsupported")]
        ELSE LET o == Outcome(a.s)
                 s1 == Consume(a.s, "load")
             IN  IF o # "Ok" THEN [s |-> s1, r |-> Err(o)]
                 ELSE LET inter == InterpreterNew(s1.in.registrat, s1.in.ctxconfigs)
                          b == ResolveAll([s1 EXCEPT !.in = inter, !.lvl = @ + 1],
                                          FileCode(a.r.v.s), 1)
                          back == [b.s EXCEPT !.in = s1.in, !.lvl = s1.lvl]
                      IN  IF ~b.r.ok THEN [s |-> back, r |-> b.r]
                          ELSE [s |-> [back EXCEPT !.in.registrat = b.s.in.registrat],
                                r |-> Ok(Null)]

(* An arm of the match whose result goes on to map_err and                 *)
(* position.down(), and one that leaves resolve with `?` or `return`.      *)
Through(a) == [s |-> a.s, r |-> a.r, early |-> FALSE]
Returned(a) == [s |-> a.s, r |-> a.r, early |-> TRUE]

RECURSIVE ResolveBlockOnlyExit(_, _, _)
(* ResolveBlock stopping at Exit only: Return, Break and Continue of a     *)
(* child are discarded like any other value.                               *)
ResolveBlockOnlyExit(s, stmts, i) ==
    IF i > Len(stmts)
    THEN Through([s |-> [s EXCEPT !.in.registrat = DropLast(@)], r |-> Ok(Null)])
    ELSE LET a == Resolve(s, stmts[i])
         IN  IF ~a.r.ok THEN Returned(a)
             ELSE IF a.r.v.t = "Exit"
                  THEN Returned([s |-> [a.s EXCEPT !.in.registrat = DropLast(@)],
                                 r |-> a.r])
                  ELSE ResolveBlockOnlyExit(a.s, stmts, i + 1)

(* The children of a Block from the i-th on: an error of a child returns   *)
(* at once, a control value drops the frame and returns at once.           *)
ResolveBlock(s, stmts, i) ==
    IF i > Len(stmts)
    THEN Through([s |-> [s EXCEPT !.in.registrat = DropLast(@)], r |-> Ok(Null)])
    ELSE LET a == Resolve(s, stmts[i])
         IN  IF ~a.r.ok THEN Returned(a)
             ELSE IF IsControl(a.r.v)
                  THEN Returned([s |-> [a.s EXCEPT !.in.registrat = DropLast(@)],
                                 r |-> a.r])
                  ELSE ResolveBlock(a.s, stmts, i + 1)

(* Block(blocks)                                                           *)
EvalBlock(s, stmt) ==
    ResolveBlock([s EXCEPT !.in.registrat = CreateChild(@)], stmt.c, 1)

(* Exit(stmt)                                                              *)
EvalExit(s, stmt) ==
    LET a == Resolve(s, stmt.c[1])
    IN  IF ~a.r.ok THEN Returned(a)
        ELSE IF a.r.v.t = "Number" THEN Through([s |-> a.s, r |-> Ok(NaslExit(a.r.v.n))])
        ELSE Through([s |-> [a.s EXCEPT !.origin = <<stmt.c[1]>>],
                      r |-> Err("Unsupported")])

(* Return(stmt)                                                            *)
EvalReturn(s, stmt) ==
    LET a == Resolve(s, stmt.c[1])
    IN  IF ~a.r.ok THEN Returned(a)
        ELSE Through([s |-> a.s, r |-> Ok(NaslReturn(a.r.v))])

(* Variable: the token is turned into the name (an error leaves resolve    *)
(* with `?`), the name is looked up, an unbound name is Null.              *)
EvalVariable(s, stmt) ==
    IF stmt.name \notin Names THEN Returned([s |-> s, r |-> Err("WrongCategory")])
    ELSE Through([s |-> s, r |-> Ok(Named(s.in.registrat, stmt.name))])

(* If(condition, if_block, _, None): a taken branch is returned directly.  *)
EvalIf(s, stmt) ==
    LET a == Resolve(s, stmt.c[1])
    IN  IF ~a.r.ok THEN Through(a)
        ELSE IF Truthy(a.r.v) THEN Returned(Resolve(a.s, stmt.c[2]))
        ELSE Through([s |-> a.s, r |-> Ok(Null)])

(* The match on statement.kind() of Interpreter::resolve.                  *)
Eval(s, stmt) ==
    CASE stmt.k = "Primitive" -> Through([s |-> s, r |-> Ok(stmt.val)])
      [] stmt.k = "Call" -> Through(EvalCall(s, stmt))
      [] stmt.k = "Assign" -> Through(EvalAssign(s, stmt))
      [] stmt.k = "Include" -> Through(EvalInclude(s, stmt))
      [] stmt.k = "Block" -> EvalBlock(s, stmt)
      [] stmt.k = "Exit" -> EvalExit(s, stmt)
      [] stmt.k = "Return" -> EvalReturn(s, stmt)
      [] stmt.k = "Variable" -> EvalVariable(s, stmt)
      [] stmt.k = "If" -> EvalIf(s, stmt)
      [] stmt.k = "Break" -> Through([s |-> s, r |-> Ok(NaslBreak)])
      [] stmt.k = "Continue" -> Through([s |-> s, r |-> Ok(NaslContinue)])
      [] OTHER -> Through([s |-> s, r |-> Ok(Null)])

(* ResolveSkip with the recorded position compared before the cursor is    *)
(* popped.                                                                 *)
ResolveSkipBeforeDown(s, stmt) ==
    LET cp == s.in.skip_until_return.p
        rv == s.in.skip_until_return.v
        s1 == [s EXCEPT !.in.position = Down(@), !.dep = @ - 1]
    IN  IF cp = s.in.position
        THEN [s |-> [s1 EXCEPT !.in.skip_until_return = NoSkip,
                               !.ev = Append(@, Event(s1, stmt, "emit", Ok(rv)))],
              r |-> Ok(rv)]
        ELSE [s |-> [s1 EXCEPT !.ev = Append(@, Event(s1, stmt, "null", Ok(Null)))],
              r |-> Ok(Null)]

(* The skip path of Interpreter::resolve: the cursor is popped, then       *)
(* compared with the recorded position.                                    *)
ResolveSkip(s, stmt) ==
    LET cp == s.in.skip_until_return.p
        rv == s.in.skip_until_return.v
        s1 == [s EXCEPT !.in.position = Down(@), !.dep = @ - 1]
    IN  IF cp = s1.in.position
        THEN [s |-> [s1 EXCEPT !.in.skip_until_return = NoSkip,
                               !.ev = Append(@, Event(s1, stmt, "emit", Ok(rv)))],
              r |-> Ok(rv)]
        ELSE [s |-> [s1 EXCEPT !.ev = Append(@, Event(s1, stmt, "null", Ok(Null)))],
              r |-> Ok(Null)]

(* The map_err of Interpreter::resolve: an error without origin gets the   *)
(* statement as origin, an error with an origin keeps it.                  *)
MapErr(a, stmt) ==
    IF a.r.ok THEN <<>>
    ELSE IF a.s.origin = <<>> THEN <<stmt>> ELSE a.s.origin

(* Interpreter::resolve.  No error is in flight when it is entered.        *)
Resolve(s, stmt) ==
    LET s1 == [s EXCEPT !.in.position = Up(@), !.origin = <<>>, !.dep = @ + 1]
    IN  IF s1.in.skip_until_return.set THEN ResolveSkip(s1, stmt)
        ELSE LET Origin(a) == IF a.early THEN a.s.origin ELSE MapErr(a, stmt)
                 Leave(a, o) ==
                     [s |-> [a.s EXCEPT !.in.position = IF a.early THEN @ ELSE Down(@),
                                        !.origin = o,
                                        !.dep = s.dep,
                                        !.ev = Append(@, [Event(s, stmt, "eval", a.r)
                                                              EXCEPT !.o = o,
                                                                     !.f1 = Len(a.s.in.registrat),
                                                                     !.reg1 = a.s.in.registrat,
                                                                     !.p1 = IF a.early
                                                                            THEN a.s.in.position
                                                                            ELSE Down(a.s.in.position)])],
                      r |-> a.r]
                 After(a) == Leave(a, Origin(a))
             IN  After(Eval(s1, stmt))

(* IsRetriable matching every LoadError instead of LoadError::Retry.       *)
IsRetriableAnyLoadError(e) ==
    e \in {"LoadRetry", "LoadNotFound", "IOInterrupted", "StorageRetry"}

(* The error kinds retry_resolve matches: LoadError::Retry,                *)
(* IOError(Interrupted) and StorageError::Retry.                           *)
IsRetriable(e) == e \in {"LoadRetry", "IOInterrupted", "StorageRetry"}

RECURSIVE RetryResolve(_, _, _)

(* Interpreter::retry_resolve_next: advance the last index of the cursor,  *)
(* then retry_resolve.                                                     *)
RetryResolveNext(s, stmt, max_attempts) ==
    LET n == Len(s.in.position)
        s1 == IF n = 0 THEN s ELSE [s EXCEPT !.in.position[n] = @ + 1]
    IN  RetryResolve(s1, stmt, max_attempts)

(* RetryResolve giving up one attempt early (max_attempts > 1).            *)
RetryResolveOneShort(s, stmt, max_attempts) ==
    LET Match(a) == IF a.r.ok THEN a
                    ELSE IF max_attempts > 1 /\ IsRetriable(a.r.e)
                         THEN RetryResolveNext(a.s, stmt, max_attempts - 1)
                         ELSE a
    IN  Match(Resolve(s, stmt))

(* Interpreter::retry_resolve                                              *)
RetryResolve(s, stmt, max_attempts) ==
    LET Match(a) == IF a.r.ok THEN a
                    ELSE IF max_attempts > 0 /\ IsRetriable(a.r.e)
                         THEN RetryResolveNext(a.s, stmt, max_attempts - 1)
                         ELSE a
    IN  Match(Resolve(s, stmt))

(* Interpreter::next_interpreter: ret is the (1-based) place of the        *)
(* sibling handed out, 0 for None; in is the interpreter afterwards.       *)
NextInterpreter(in) ==
    LET idx == in.forked_interpreter_index
        none == idx >= Len(in.forked_interpreter)
    IN  [ret |-> IF none THEN 0 ELSE idx + 1,
         in |-> [in EXCEPT !.forked_interpreter_index =
                              IF none /\ idx > 0 THEN 0 ELSE idx + 1]]

-----------------------------------------------------------------------------
(* Spec: CodeInterpreter.                                                  *)

NoCall == [op |-> "none", stmt |-> 0, n |-> 0, ret |-> 0, r |-> Ok(Null),
           ev |-> <<>>, plan |-> <<>>, pre |-> <<>>]

(* The updater of the specifications that have none.                      *)
NoUpdate ==
    [verifier |-> <<>>, feed_version_set |-> FALSE, files |-> <<>>,
     loader |-> "Ok", dispatcher |-> "Ok", log |-> <<>>, out |-> <<>>,
     single |-> <<>>, panicked |-> FALSE]

(* The replacer of the specifications that rewrite nothing.                *)
NoReplacer ==
    [code |-> <<>>, replace |-> <<>>, result |-> <<>>, panic |-> FALSE, log |-> <<>>,
     done |-> FALSE]

(* The function register before anything is pushed: executor is the list   *)
(* of its modules, built is set by build(), last is the last call and what *)
(* it returned.                                                            *)
NoFunctions == [executor |-> <<>>, built |-> FALSE, last |-> <<>>]

(* The Scanner of the specifications that run no scan.                     *)
NoScanner == [running |-> <<>>, scans |-> <<>>, calls |-> <<>>, released |-> <<>>]

(* The top-level statements a driven script is made of.                    *)
Alphabet ==
    {SetKb(1), SetKb(2), GetKb, Display(GetKb), Assign("x", GetKb),
     Assign("x", Primitive(Number(5))), IncStmt, Exit(Primitive(Number(0)))}

Scripts == UNION {[1..n -> Alphabet] : n \in 1..MaxStmts}

(* What is in the knowledge base before the script runs.                   *)
InitialKb == {<<>>, <<Number(1), Number(2)>>}

(* What the loader and the storage answer while a script is driven.        *)
DriverPlans == {<<>>, <<"LoadRetry">>, <<"LoadNotFound">>}

Init ==
    /\ code \in Scripts
    /\ lexer = 0
    /\ interpreter = InterpreterNew(RegisterDefault, ContextNew(FALSE))
    /\ statement = 0
    /\ kb \in InitialKb
    /\ plan \in DriverPlans
    /\ driver \in {"next_", "stream"}
    /\ ended = FALSE
    /\ trace = <<>>
    /\ call = NoCall
    /\ update = NoUpdate
    /\ functions = NoFunctions
    /\ scanner = NoScanner
    /\ replacer = NoReplacer

(* The interpreter after the driver had it resolve code[i] with outcome a, *)
(* the statement and the way it was answered added to its history.         *)
Driven(a, i) ==
    [a.s.in EXCEPT !.hist = Append(@, [stmt |-> i, how |-> a.s.ev[Len(a.s.ev)].how])]

(* CodeInterpreter::next_statement, run on root interpreter in.            *)
NextStatement(in) ==
    IF lexer < Len(code)
    THEN LET a == RetryResolveNext(EvalState(in, kb, plan, lexer + 1), code[lexer + 1],
                                   DriverAttempts)
         IN  /\ lexer' = lexer + 1
             /\ interpreter' = Driven(a, lexer + 1)
             /\ kb' = a.s.kb
             /\ plan' = a.s.plan
             /\ statement' = lexer + 1
             /\ trace' = Append(trace, [who |-> 0, stmt |-> lexer + 1, r |-> a.r])
             /\ ended' = FALSE
    ELSE /\ statement' = 0
         /\ ended' = TRUE
         /\ interpreter' = in
         /\ UNCHANGED <<lexer, kb, plan, trace>>

(* CodeInterpreter::next_: the sibling next_interpreter hands out resolves *)
(* the current statement; on None the next statement is taken.             *)
Next_ ==
    /\ driver = "next_"
    /\ ~ended
    /\ IF statement # 0
       THEN LET ni == NextInterpreter(interpreter)
            IN  /\ call' = [NoCall EXCEPT !.op = "next_interpreter", !.ret = ni.ret]
                /\ IF ni.ret # 0
                   THEN LET a == RetryResolve(
                                     EvalState(ni.in.forked_interpreter[ni.ret], kb, plan,
                                               statement),
                                     code[statement], DriverAttempts)
                        IN  /\ interpreter' =
                                   [ni.in EXCEPT !.forked_interpreter[ni.ret] =
                                                     Driven(a, statement)]
                            /\ kb' = a.s.kb
                            /\ plan' = a.s.plan
                            /\ trace' = Append(trace, [who |-> ni.ret, stmt |-> statement,
                                                       r |-> a.r])
                            /\ UNCHANGED <<lexer, statement, ended>>
                   ELSE NextStatement(ni.in)
       ELSE /\ NextStatement(interpreter)
            /\ UNCHANGED call
    /\ UNCHANGED <<code, driver, update, replacer, functions, scanner>>

(* One item of CodeInterpreter::stream: the unfold closure calls           *)
(* next_statement and ends the stream on None.                             *)
StreamNext ==
    /\ driver = "stream"
    /\ ~ended
    /\ NextStatement(interpreter)
    /\ UNCHANGED <<code, driver, call, update, replacer, functions, scanner>>

Next == Next_ \/ StreamNext

Spec == Init /\ [][Next]_vars

-----------------------------------------------------------------------------
(* SpecApi: a client of one Interpreter.  The interpreter is a root        *)
(* (Interpreter::new) or a fork sibling: any cursor and any recorded       *)
(* position of ApiPositions, the fields being pub(crate).                  *)

ApiCode == <<Primitive(Number(5)), GetKb, Assign("x", Primitive(Number(5))),
             Display(GetKb), SetKb(2)>>

ApiPositions == {<<0>>, <<1>>, <<2>>, <<1, 0>>}

ApiInterpreters ==
    {[InterpreterNew(RegisterDefault, ContextNew(FALSE))
         EXCEPT !.position = q, !.skip_until_return = sk] :
        q \in ApiPositions,
        sk \in {NoSkip} \cup {SkipAt(p, Number(2)) : p \in ApiPositions}}

ApiPlans == {<<>>, <<"StorageRetry">>}

InitApi ==
    /\ code = ApiCode
    /\ lexer = 0
    /\ interpreter \in ApiInterpreters
    /\ statement = 0
    /\ kb \in InitialKb
    /\ plan \in ApiPlans
    /\ driver = "api"
    /\ ended = FALSE
    /\ trace = <<>>
    /\ call = NoCall
    /\ update = NoUpdate
    /\ functions = NoFunctions
    /\ scanner = NoScanner
    /\ replacer = NoReplacer

Ordinal(in) == IF in.position = <<>> THEN 0 ELSE in.position[Len(in.position)]

ApiBounded ==
    /\ driver = "api"
    /\ Ordinal(interpreter) < MaxOrdinal
    /\ Len(interpreter.forked_interpreter) < MaxSiblings

ApiDone(op, i, n, a) ==
    /\ interpreter' = a.s.in
    /\ kb' = a.s.kb
    /\ plan' = a.s.plan
    /\ call' = [op |-> op, stmt |-> i, n |-> n, ret |-> 0, r |-> a.r, ev |-> a.s.ev,
                plan |-> plan, pre |-> <<>>]
    /\ UNCHANGED <<code, lexer, statement, driver, ended, trace, update, replacer, functions,
                   scanner>>

ApiResolve ==
    /\ ApiBounded
    /\ \E i \in 1..Len(code) :
          ApiDone("resolve", i, 0, Resolve(EvalState(interpreter, kb, plan, i), code[i]))

ApiRetryResolve ==
    /\ ApiBounded
    /\ \E i \in 1..Len(code), n \in 0..1 :
          ApiDone("retry_resolve", i, n,
                  RetryResolve(EvalState(interpreter, kb, plan, i), code[i], n))

ApiRetryResolveNext ==
    /\ ApiBounded
    /\ \E i \in 1..Len(code), n \in 0..1 :
          ApiDone("retry_resolve_next", i, n,
                  RetryResolveNext(EvalState(interpreter, kb, plan, i), code[i], n))

ApiNextInterpreter ==
    /\ driver = "api"
    /\ LET ni == NextInterpreter(interpreter)
       IN  /\ interpreter' = ni.in
           /\ call' = [NoCall EXCEPT !.op = "next_interpreter", !.ret = ni.ret]
    /\ UNCHANGED <<code, lexer, statement, kb, plan, driver, ended, trace, update, replacer,
                   functions, scanner>>

NextApi == ApiResolve \/ ApiRetryResolve \/ ApiRetryResolveNext \/ ApiNextInterpreter

SpecApi == InitApi /\ [][NextApi]_vars

-----------------------------------------------------------------------------
(* SpecRetry: one call of retry_resolve(stmt, n) or retry_resolve_next on  *)
(* a new interpreter, the loader and the storage failing as planned.       *)

Outcomes == {"Ok", "LoadRetry", "StorageRetry", "IOInterrupted", "LoadNotFound"}

RetryPlans == UNION {[1..n -> Outcomes] : n \in 0..MaxPlan}

RetryCode == <<IncStmt, SetKb(1), Primitive(Number(5))>>

InitRetry ==
    /\ code = RetryCode
    /\ lexer = 0
    /\ interpreter = InterpreterNew(RegisterDefault, ContextNew(FALSE))
    /\ statement \in 1..Len(RetryCode)
    /\ kb = <<>>
    /\ plan \in RetryPlans
    /\ driver = "retry"
    /\ ended = FALSE
    /\ trace = <<>>
    /\ call = NoCall
    /\ update = NoUpdate
    /\ functions = NoFunctions
    /\ scanner = NoScanner
    /\ replacer = NoReplacer

RetryDone(op, n, a) ==
    /\ interpreter' = a.s.in
    /\ kb' = a.s.kb
    /\ plan' = a.s.plan
    /\ call' = [op |-> op, stmt |-> statement, n |-> n, ret |-> 0, r |-> a.r,
                ev |-> a.s.ev, plan |-> plan, pre |-> <<>>]
    /\ ended' = TRUE
    /\ UNCHANGED <<code, lexer, statement, driver, trace, update, replacer, functions, scanner>>

RetryResolveCall ==
    /\ driver = "retry"
    /\ ~ended
    /\ \E n \in 0..MaxAttempts :
          RetryDone("retry_resolve", n,
                    RetryResolve(EvalState(interpreter, kb, plan, statement), code[statement],
                                 n))

RetryResolveNextCall ==
    /\ driver = "retry"
    /\ ~ended
    /\ \E n \in 0..MaxAttempts :
          RetryDone("retry_resolve_next", n,
                    RetryResolveNext(EvalState(interpreter, kb, plan, statement),
                                     code[statement], n))

NextRetry == RetryResolveCall \/ RetryResolveNextCall

SpecRetry == InitRetry /\ [][NextRetry]_vars

-----------------------------------------------------------------------------
(* SpecResolve: one call of resolve, retry_resolve or retry_resolve_next   *)
(* with one statement of ResolveCode, on an interpreter whose register has *)
(* one or two frames and whose context has the cancellation signal set or  *)
(* not, the loader and the storage failing as planned.                     *)

BadToken == ";"

ResolveCode ==
    <<Block(<<Assign("x", Primitive(Number(5))), SetKb(1)>>),
      Block(<<Exit(Primitive(Number(0))), SetKb(1)>>),
      Block(<<Return(Variable("x")), SetKb(1)>>),
      Block(<<Break, SetKb(1)>>),
      Block(<<Continue, SetKb(1)>>),
      Block(<<Block(<<IncStmt>>), Assign("x", Primitive(Number(5)))>>),
      If(Primitive(Number(1)), Block(<<SetKb(1)>>)),
      If(Variable("x"), Exit(Primitive(Number(1)))),
      Exit(Primitive(Number(0))),
      Return(IncStmt),
      Variable(BadToken),
      Display(Variable(BadToken)),
      Block(<<Exit(Variable(BadToken))>>),
      SetKb(1),
      Block(<<Assign("x", Primitive(Number(5))), Return(Variable("x")), SetKb(1)>>),
      IncStmt,
      Include(Primitive(String("two"))),
      Include(Primitive(String("bad"))),
      Include(Assign("x", Primitive(String("two"))))>>

ResolvePlans ==
    UNION {[1..n -> {"Ok", "StorageRetry", "LoadNotFound"}] : n \in 0..2}

ResolveRegisters ==
    {RegisterDefault, <<RootFrame, [ChildFrame EXCEPT !["x"] = Number(1)]>>}

InitResolve ==
    /\ code = ResolveCode
    /\ lexer = 0
    /\ \E reg \in ResolveRegisters, cancelled \in BOOLEAN :
          interpreter = InterpreterNew(reg, ContextNew(cancelled))
    /\ statement \in 1..Len(ResolveCode)
    /\ kb = <<>>
    /\ plan \in ResolvePlans
    /\ driver = "resolve"
    /\ ended = FALSE
    /\ trace = <<>>
    /\ call = NoCall
    /\ update = NoUpdate
    /\ functions = NoFunctions
    /\ scanner = NoScanner
    /\ replacer = NoReplacer

ResolveDone(op, n, a) ==
    /\ interpreter' = a.s.in
    /\ kb' = a.s.kb
    /\ plan' = a.s.plan
    /\ call' = [op |-> op, stmt |-> statement, n |-> n, ret |-> 0, r |-> a.r,
                ev |-> a.s.ev, plan |-> plan, pre |-> <<interpreter>>]
    /\ ended' = TRUE
    /\ UNCHANGED <<code, lexer, statement, driver, trace, update, replacer, functions, scanner>>

ResolveCall ==
    /\ driver = "resolve"
    /\ ~ended
    /\ ResolveDone("resolve", 0,
                   Resolve(EvalState(interpreter, kb, plan, statement), code[statement]))

ResolveRetryCall ==
    /\ driver = "resolve"
    /\ ~ended
    /\ \E n \in 0..1 :
          ResolveDone("retry_resolve", n,
                      RetryResolve(EvalState(interpreter, kb, plan, statement),
                                   code[statement], n))

ResolveRetryNextCall ==
    /\ driver = "resolve"
    /\ ~ended
    /\ \E n \in 0..1 :
          ResolveDone("retry_resolve_next", n,
                      RetryResolveNext(EvalState(interpreter, kb, plan, statement),
                                       code[statement], n))

NextResolve == ResolveCall \/ ResolveRetryCall \/ ResolveRetryNextCall

SpecResolve == InitResolve /\ [][NextResolve]_vars

-----------------------------------------------------------------------------
(* SpecUpdate: the feed updater.  Update is an iterator: every next()      *)
(* takes the verifier to its next script or error, or handles the feed     *)
(* info once the verifier is exhausted.  A file name is the sequence of    *)
(* its characters (the stem counts as one).  Every entry of the verifier   *)
(* says whether its hash verifies, whether the loader finds the file, and  *)
(* what the file contains.  log, out, single and files are history: the    *)
(* loader and storage operations, the items next() has yielded, the calls  *)
(* of single, and the verifier as it was at the start.                     *)

NaslSuffix == <<".", "n", "a", "s", "l">>
FeedInfoKey == <<"plugin_feed_info", ".", "i", "n", "c">>
FileNames == {<<"a">> \o NaslSuffix, FeedInfoKey}

(* str::ends_with                                                          *)
EndsWith(name, suffix) ==
    /\ Len(name) >= Len(suffix)
    /\ SubSeq(name, Len(name) - Len(suffix) + 1, Len(name)) = suffix

ExitScript == <<Assign("x", Primitive(Number(5))), Exit(Primitive(Number(0))), SetKb(1)>>
NoExitScript == <<Assign("x", Primitive(Number(5)))>>
FeedInfoCode == <<Assign("PLUGIN_SET", Primitive(String("v1")))>>

(* An Err item of the verifier, and its Ok items (HashSumFileItem).        *)
ErrItem ==
    [ok |-> FALSE, filename |-> <<>>, verify |-> FALSE, load |-> "Ok", script |-> <<>>]
VerifierItems ==
    {ErrItem} \cup
    {[ok |-> TRUE, filename |-> f, verify |-> v, load |-> l, script |-> sc] :
        f \in FileNames, v \in BOOLEAN, l \in {"Ok", "LoadNotFound"},
        sc \in {ExitScript, NoExitScript}}

(* The feed info file as the loader has it; it is no entry that was        *)
(* verified.                                                               *)
FeedInfoItem(u) ==
    [ok |-> TRUE, filename |-> FeedInfoKey, verify |-> FALSE, load |-> u.loader,
     script |-> FeedInfoCode]

InitUpdate ==
    /\ code = <<>>
    /\ lexer = 0
    /\ interpreter = InterpreterNew(RegisterDefault, ContextNew(FALSE))
    /\ statement = 0
    /\ kb = <<>>
    /\ plan = <<>>
    /\ driver = "update"
    /\ ended = FALSE
    /\ trace = <<>>
    /\ call = NoCall
    /\ replacer = NoReplacer
    /\ functions = NoFunctions
    /\ scanner = NoScanner
    /\ \E v \in UNION {[1..n -> VerifierItems] : n \in 0..MaxFiles},
          l \in {"Ok", "LoadNotFound"}, d \in {"Ok", "StorageError"} :
          update = [NoUpdate EXCEPT !.verifier = v, !.files = v, !.loader = l,
                                    !.dispatcher = d]

(* Result<String, Error> as next() yields it.                              *)
OkOut(key) == [ok |-> TRUE, key |-> key, kind |-> ""]
ErrOut(key, kind) == [ok |-> FALSE, key |-> key, kind |-> kind]

(* ContainsNasl(x) with every file name taken for a script.                *)
ContainsNaslAnyName(x) == TRUE

(* The closure given to verifier.find: an Ok item whose file name ends in  *)
(* .nasl, or an Err item.                                                  *)
ContainsNasl(x) == IF x.ok THEN EndsWith(x.filename, NaslSuffix) ELSE TRUE

(* Iterator::find: the place of the first item the closure accepts, 0 for  *)
(* None; the items before it are consumed.                                 *)
Find(verifier) ==
    LET hits == {i \in 1..Len(verifier) : ContainsNasl(verifier[i])}
    IN  IF hits = {} THEN 0 ELSE CHOOSE i \in hits : \A j \in hits : i <= j

(* Iterator::next of CodeInterpreter is todo!(): the call panics.          *)
IteratorNext == [panic |-> TRUE]

(* Result<i64, ErrorKind> of Update::single.                               *)
SingleOk(i) == [ok |-> TRUE, n |-> i, kind |-> ""]
SingleErr(kind) == [ok |-> FALSE, n |-> 0, kind |-> kind]

(* Update::single: load the script, then loop over the CodeInterpreter.    *)
(* The loop's first call of next panics: no statement is resolved and no   *)
(* result is returned (r is then without meaning).                         *)
Single(u, item) ==
    LET u1 == [u EXCEPT !.log = Append(@, [op |-> "load", key |-> item.filename,
                                           item |-> item])]
    IN  IF item.load # "Ok"
        THEN [u |-> u1, panic |-> FALSE, r |-> SingleErr(item.load)]
        ELSE IF IteratorNext.panic
        THEN [u |-> u1, panic |-> TRUE, r |-> SingleErr("panic")]
        ELSE [u |-> u1, panic |-> FALSE, r |-> SingleErr("MissingExit")]

RECURSIVE FeedVersionRun(_, _, _)

(* The loop of feed_version: retry_resolve_next(stmt, 3)? per statement.   *)
FeedVersionRun(s, stmts, i) ==
    IF i > Len(stmts) THEN [s |-> s, r |-> Ok(Null)]
    ELSE LET Match(a) == IF ~a.r.ok THEN a ELSE FeedVersionRun(a.s, stmts, i + 1)
         IN  Match(RetryResolveNext(s, stmts[i], FeedVersionAttempts))

(* feed_version: load plugin_feed_info.inc, interpret it, read PLUGIN_SET. *)
FeedVersion(u) ==
    LET u1 == [u EXCEPT !.log = Append(@, [op |-> "load", key |-> FeedInfoKey,
                                           item |-> FeedInfoItem(u)])]
        PluginSet(v) == IF v = Null THEN "0" ELSE v.s
        Version(run) ==
            IF ~run.r.ok THEN [u |-> u1, r |-> ErrOut(FeedInfoKey, run.r.e)]
            ELSE [u |-> u1,
                  r |-> OkOut(<<PluginSet(Named(run.s.in.registrat, "PLUGIN_SET"))>>)]
    IN  IF u.loader # "Ok" THEN [u |-> u1, r |-> ErrOut(FeedInfoKey, u.loader)]
        ELSE Version(FeedVersionRun(
                         EvalState(InterpreterNew(RegisterDefault, ContextNew(FALSE)),
                                   <<>>, <<>>, 0),
                         FeedInfoCode, 1))

(* Update::dispatch_feed_info: the feed version, then cache_nvt_field of   *)
(* NVTField::Version.                                                      *)
DispatchFeedInfo(u) ==
    LET Cache(fv) ==
            IF ~fv.r.ok THEN fv
            ELSE IF u.dispatcher # "Ok"
            THEN [u |-> fv.u, r |-> ErrOut(FeedInfoKey, u.dispatcher)]
            ELSE [u |-> [fv.u EXCEPT !.log = Append(@, [op |-> "Version", key |-> fv.r.key,
                                                        item |-> FeedInfoItem(u)])],
                  r |-> OkOut(FeedInfoKey)]
    IN  Cache(FeedVersion(u))

(* The match of Update::next with the feed info handled before the         *)
(* verifier is looked at.                                                  *)
ArmFeedInfoFirst(found, feed_version_set) ==
    IF ~feed_version_set THEN "feed_info"
    ELSE IF found # 0 THEN "script"
    ELSE "none"

(* The arm the match of Update::next takes on what find returned.          *)
Arm(found, feed_version_set) ==
    IF found # 0 THEN "script"
    ELSE IF ~feed_version_set THEN "feed_info"
    ELSE "none"

(* FeedInfoArm(d) that sets feed_version_set only when the feed version    *)
(* has been dispatched.                                                    *)
FeedInfoArmUntilDispatched(d) ==
    [d.u EXCEPT !.feed_version_set = d.r.ok, !.out = Append(@, d.r)]

(* The arm `None if !self.feed_version_set` of Update::next: the result of *)
(* dispatch_feed_info is yielded and feed_version_set is set, whatever the *)
(* result is.                                                              *)
FeedInfoArm(d) ==
    [d.u EXCEPT !.feed_version_set = TRUE, !.out = Append(@, d.r)]

(* Update::next                                                            *)
UpdateNext ==
    /\ driver = "update"
    /\ ~update.panicked
    /\ LET j == Find(update.verifier)
           arm == Arm(j, update.feed_version_set)
           u0 == [update EXCEPT !.verifier =
                                   IF j = 0 THEN <<>> ELSE SubSeq(@, j + 1, Len(@))]
       IN  IF arm = "script"
           THEN LET k == update.verifier[j]
                    checked == [u0 EXCEPT !.log = Append(@, [op |-> "verify",
                                                             key |-> k.filename,
                                                             item |-> k])]
                    s == Single(checked, k)
                IN  /\ update' =
                           IF ~k.ok
                           THEN [u0 EXCEPT !.out = Append(@, ErrOut(k.filename, "VerifyError"))]
                           ELSE IF ~k.verify
                           THEN [checked EXCEPT !.out =
                                                   Append(@, ErrOut(k.filename, "VerifyError"))]
                           ELSE IF s.panic
                           THEN [s.u EXCEPT !.panicked = TRUE,
                                            !.single = Append(@, [item |-> k, r |-> s.r,
                                                                  panic |-> TRUE])]
                           ELSE [s.u EXCEPT !.out =
                                                Append(@, IF s.r.ok THEN OkOut(k.filename)
                                                          ELSE ErrOut(k.filename, s.r.kind)),
                                            !.single = Append(@, [item |-> k, r |-> s.r,
                                                                  panic |-> FALSE])]
                    /\ UNCHANGED ended
           ELSE IF arm = "feed_info"
           THEN /\ update' = FeedInfoArm(DispatchFeedInfo(u0))
                /\ UNCHANGED ended
           ELSE /\ update' = u0
                /\ ended' = TRUE
    /\ UNCHANGED <<code, lexer, interpreter, statement, kb, plan, driver, trace, call,
                   replacer, functions, scanner>>

NextUpdate == UpdateNext

SpecUpdate == InitUpdate /\ [][NextUpdate]_vars

-----------------------------------------------------------------------------
(* SpecReplace: the code rewriter.  A source is the sequence of its bytes  *)
(* (one-character strings); a position is a pair <<start, end>> of byte    *)
(* offsets counted from 0, end exclusive.  The tokenizer, the parser and   *)
(* Statement::find are the ones of nasl-syntax, reduced to the constructs  *)
(* the sources below are written in.                                       *)

Letters == {"a", "b", "c", "d", "e", "f", "h", "i", "l", "n", "o", "t", "u", "w",
            "x", "y", "z"}
Digits == {"1", "2", "3"}
Whitespace == {" ", "\n"}

KwFunction == <<"f", "u", "n", "c", "t", "i", "o", "n">>
KwIf == <<"i", "f">>
KwWhile == <<"w", "h", "i", "l", "e">>
KwExit == <<"e", "x", "i", "t">>
KwInclude == <<"i", "n", "c", "l", "u", "d", "e">>

(* The category of an identifier: a reserved word or Undefined(name).      *)
IdentifierType(text) ==
    IF text = KwFunction THEN "Function"
    ELSE IF text = KwIf THEN "If"
    ELSE IF text = KwWhile THEN "While"
    ELSE IF text = KwExit THEN "Exit"
    ELSE IF text = KwInclude THEN "Include"
    ELSE "Undefined"

Token(category, text, position) ==
    [category |-> category, text |-> text, position |-> position]

RECURSIVE IdentEnd(_, _)
(* The offset after the identifier or number that starts at offset i.      *)
IdentEnd(src, i) ==
    IF i < Len(src) /\ src[i + 1] \in Letters \cup Digits THEN IdentEnd(src, i + 1)
    ELSE i

(* The offsets of the # signs of the source.                               *)
CommentSigns(src) == {j \in 0..(Len(src) - 1) : src[j + 1] = "#"}

(* Offset i lies in a comment: a comment runs from its # to the end of    *)
(* its line.                                                               *)
InComment(src, signs, i) ==
    \E j \in signs : j <= i /\ \A m \in (j + 1)..i : src[m] # "\n"

IsIdentChar(src, i) == src[i + 1] \in Letters \cup Digits

(* A token starts at offset i: whitespace and comments are skipped, their  *)
(* bytes are counted.                                                      *)
IsTokenStart(src, signs, i) ==
    /\ src[i + 1] \notin Whitespace
    /\ IsIdentChar(src, i) => (i = 0 \/ ~IsIdentChar(src, i - 1))
    /\ ~InComment(src, signs, i)

(* The offsets at which a token starts, in the order of the source.        *)
TokenStarts(src) ==
    LET Starts(signs) ==
            SelectSeq([k \in 1..Len(src) |-> k - 1], LAMBDA i : IsTokenStart(src, signs, i))
    IN  Starts(CommentSigns(src))

(* The token that starts at offset i.                                      *)
TokenFrom(src, i) ==
    LET ch == src[i + 1]
        Word(e) == LET text == SubSeq(src, i + 1, e)
                   IN  IF ch \in Letters THEN Token(IdentifierType(text), text, <<i, e>>)
                       ELSE Token("Number", text, <<i, e>>)
    IN  IF ch \in Letters \cup Digits THEN Word(IdentEnd(src, i))
        ELSE Token(ch, <<ch>>, <<i, i + 1>>)

(* The tokenizer: the tokens in the order of their offsets.                *)
Tokenize(src) ==
    LET Tokens(starts) == [k \in 1..Len(starts) |-> TokenFrom(src, starts[k])]
    IN  Tokens(TokenStarts(src))

(* The k-th token, EoF past the last one.                                  *)
TokenAt(toks, k) ==
    IF k <= Len(toks) THEN toks[k] ELSE Token("EoF", <<>>, <<0, 0>>)

(* A statement of the rewriter: its kind, its token (the callee or the     *)
(* name for what is callable), its sub-statements and its byte range; a    *)
(* Call and a FunctionDeclaration have their parameters in args and the    *)
(* position of their closing parenthesis in end.                           *)
Stmt(kind, token, stmts, position) ==
    [kind |-> kind, token |-> token, stmts |-> stmts, position |-> position,
     args |-> <<>>, end |-> <<0, 0>>]

(* Statement::Call(token, parameter, closing parenthesis)                  *)
CallStmt(kind, token, args, end, position) ==
    [Stmt(kind, token, args, position) EXCEPT !.args = args, !.end = end]

(* Statement::FunctionDeclaration(function, name, parameter, closing       *)
(* parenthesis, block)                                                     *)
DeclarationStmt(token, args, end, block, position) ==
    [Stmt("FunctionDeclaration", token, block, position) EXCEPT !.args = args, !.end = end]

Parsed(stmt, next) == [ok |-> TRUE, stmt |-> stmt, next |-> next]
SyntaxError(k) == [ok |-> FALSE, stmt |-> <<>>, next |-> k]

(* The range from the first token to the last one before token next.       *)
Range(toks, first, next) ==
    <<TokenAt(toks, first).position[1], TokenAt(toks, next - 1).position[2]>>

RECURSIVE ParseExpression(_, _)
RECURSIVE ParseStatement(_, _)
RECURSIVE ParseParameter(_, _, _)
RECURSIVE ParseBlock(_, _, _)

(* A list of expressions up to the closing parenthesis.                    *)
ParseParameter(toks, k, acc) ==
    IF TokenAt(toks, k).category = ")" THEN [ok |-> TRUE, stmts |-> acc, next |-> k + 1]
    ELSE LET More(e) ==
                 IF ~e.ok THEN [ok |-> FALSE, stmts |-> acc, next |-> k]
                 ELSE IF TokenAt(toks, e.next).category = ","
                 THEN ParseParameter(toks, e.next + 1, Append(acc, e.stmt))
                 ELSE IF TokenAt(toks, e.next).category = ")"
                 THEN [ok |-> TRUE, stmts |-> Append(acc, e.stmt), next |-> e.next + 1]
                 ELSE [ok |-> FALSE, stmts |-> acc, next |-> k]
         IN  More(ParseExpression(toks, k))

(* The statements of a block up to its closing brace.                      *)
ParseBlock(toks, k, acc) ==
    IF TokenAt(toks, k).category = "}" THEN [ok |-> TRUE, stmts |-> acc, next |-> k + 1]
    ELSE LET More(s) == IF ~s.ok THEN [ok |-> FALSE, stmts |-> acc, next |-> k]
                        ELSE ParseBlock(toks, s.next, Append(acc, s.stmt))
         IN  More(ParseStatement(toks, k))

(* The prefix rule with what follows an identifier: a call (Exit and       *)
(* Include are variants of their own), a named parameter, an assignment,   *)
(* a variable; a number; a declaration; if and while.                      *)
ParseExpression(toks, k) ==
    LET t == TokenAt(toks, k)
        n == TokenAt(toks, k + 1)
    IN  IF t.category = "Number"
        THEN Parsed(Stmt("Primitive", t, <<>>, t.position), k + 1)
        ELSE IF t.category \in {"Undefined", "Exit", "Include"} /\ n.category = "("
        THEN LET kind == IF t.category = "Undefined" THEN "Call" ELSE t.category
                 Called(p) ==
                     IF ~p.ok THEN SyntaxError(k)
                     ELSE Parsed(CallStmt(kind, t, p.stmts, TokenAt(toks, p.next - 1).position,
                                          Range(toks, k, p.next)), p.next)
             IN  Called(ParseParameter(toks, k + 2, <<>>))
        ELSE IF t.category = "Undefined" /\ n.category = ":"
        THEN LET Valued(e) ==
                     IF ~e.ok THEN SyntaxError(k)
                     ELSE Parsed(Stmt("NamedParameter", t, <<e.stmt>>,
                                      Range(toks, k, e.next)), e.next)
             IN  Valued(ParseExpression(toks, k + 2))
        ELSE IF t.category = "Undefined" /\ n.category = "="
        THEN LET Assigned(e) ==
                     IF ~e.ok THEN SyntaxError(k)
                     ELSE Parsed(Stmt("Assign", t,
                                      <<Stmt("Variable", t, <<>>, t.position), e.stmt>>,
                                      Range(toks, k, e.next)), e.next)
             IN  Assigned(ParseExpression(toks, k + 2))
        ELSE IF t.category = "Undefined"
        THEN Parsed(Stmt("Variable", t, <<>>, t.position), k + 1)
        ELSE IF /\ t.category = "Function"
                /\ n.category = "Undefined"
                /\ TokenAt(toks, k + 2).category = "("
        THEN LET Body(p, b) ==
                     IF ~b.ok THEN SyntaxError(k)
                     ELSE Parsed(DeclarationStmt(n, p.stmts,
                                                 TokenAt(toks, p.next - 1).position,
                                                 b.stmts, Range(toks, k, b.next)),
                                 b.next)
                 Declared(p) ==
                     IF ~p.ok \/ TokenAt(toks, p.next).category # "{" THEN SyntaxError(k)
                     ELSE Body(p, ParseBlock(toks, p.next + 1, <<>>))
             IN  Declared(ParseParameter(toks, k + 3, <<>>))
        ELSE IF t.category \in {"If", "While"} /\ n.category = "("
        THEN LET Bodied(cond, body) ==
                     IF ~body.ok THEN SyntaxError(k)
                     ELSE Parsed(Stmt(t.category, t, <<cond.stmt, body.stmt>>,
                                      Range(toks, k, body.next)), body.next)
                 Conditioned(cond) ==
                     IF ~cond.ok \/ TokenAt(toks, cond.next).category # ")"
                     THEN SyntaxError(k)
                     ELSE Bodied(cond, ParseStatement(toks, cond.next + 1))
             IN  Conditioned(ParseExpression(toks, k + 2))
        ELSE SyntaxError(k)

(* One statement: an expression and its semicolon; a declaration, an if    *)
(* and a while end with their body.                                        *)
ParseStatement(toks, k) ==
    LET Ended(e) ==
            IF ~e.ok THEN e
            ELSE IF e.stmt.kind \in {"FunctionDeclaration", "If", "While"} THEN e
            ELSE IF TokenAt(toks, e.next).category = ";" THEN [e EXCEPT !.next = @ + 1]
            ELSE SyntaxError(k)
    IN  Ended(ParseExpression(toks, k))

RECURSIVE SkipStatement(_, _)
(* After a syntax error the parser goes on behind the next semicolon.      *)
SkipStatement(toks, k) ==
    IF k > Len(toks) THEN k
    ELSE IF toks[k].category = ";" THEN k + 1
    ELSE SkipStatement(toks, k + 1)

RECURSIVE ParseAll(_, _, _)
(* One result per top-level statement.                                     *)
ParseAll(toks, k, acc) ==
    IF k > Len(toks) THEN acc
    ELSE LET More(s) == IF s.ok THEN ParseAll(toks, s.next, Append(acc, s))
                        ELSE ParseAll(toks, SkipStatement(toks, k), Append(acc, s))
         IN  More(ParseStatement(toks, k))

(* nasl_syntax::parse                                                      *)
Parse(src) == ParseAll(Tokenize(src), 1, <<>>)

RECURSIVE OkStatements(_)
(* parse(..).filter_map(|x| x.ok()).collect()                              *)
OkStatements(results) ==
    IF results = <<>> THEN <<>>
    ELSE (IF Head(results).ok THEN <<Head(results).stmt>> ELSE <<>>)
             \o OkStatements(Tail(results))

(* Find, FindParameter, Replace, ParameterOperation, Parameter and         *)
(* ReplaceCommand                                                          *)
FunctionByName(name) == [t |-> "FunctionByName", name |-> name]
FunctionByParameter(parameter) == [t |-> "FunctionByParameter", parameter |-> parameter]
FunctionByNameAndParameter(name, parameter) ==
    [t |-> "FunctionByNameAndParameter", name |-> name, parameter |-> parameter]
ParameterName(name) == [t |-> "Name", name |-> name]
ParameterNameValue(name, value) == [t |-> "NameValue", name |-> name, value |-> value]
ParameterIndex(x) == [t |-> "Index", x |-> x]
ReplaceName(name) == [t |-> "Name", name |-> name]
ReplaceRemove == [t |-> "Remove"]
ReplaceParameter(op) == [t |-> "Parameter", op |-> op]
ParameterNamed(name, value) == [t |-> "Named", name |-> name, value |-> value]
ParameterAnon(value) == [t |-> "Anon", value |-> value]
Push(p) == [t |-> "Push", p |-> p]
Add(i, p) == [t |-> "Add", i |-> i, p |-> p]
RemoveNamed(name) == [t |-> "RemoveNamed", name |-> name]
Remove(i) == [t |-> "Remove", i |-> i]
RemoveAll == [t |-> "RemoveAll"]
Rename(previous, new) == [t |-> "Rename", previous |-> previous, new |-> new]
ReplaceCommand(find, with) == [find |-> find, with |-> with]

(* Statement::is_returnable: what may have a value.                        *)
IsReturnable(s) == s.kind \in {"Primitive", "Variable", "Call", "Assign"}

(* The text of a parameter value as the matcher compares it: the token of  *)
(* a number or a variable, the callee with its parentheses for a call.     *)
StatementToString(s) ==
    IF s.kind \in {"Primitive", "Variable"} THEN s.token.text
    ELSE s.token.text \o <<"(", ")">>

(* The named parameters the matcher sees: name and value of the            *)
(* NamedParameter of a call, the declared variables with an empty value.   *)
NamedOf(s) ==
    IF s.kind = "Call"
    THEN LET p == SelectSeq(s.args, LAMBDA x : x.kind = "NamedParameter")
         IN  [i \in 1..Len(p) |-> <<p[i].token.text, StatementToString(p[i].stmts[1])>>]
    ELSE IF s.kind = "FunctionDeclaration"
    THEN LET p == SelectSeq(s.args, LAMBDA x : x.kind = "Variable")
         IN  [i \in 1..Len(p) |-> <<p[i].token.text, <<>>>>]
    ELSE <<>>

(* The number of anonymous parameters the matcher sees.                    *)
AnonOf(s) ==
    IF s.kind = "Call" THEN Len(SelectSeq(s.args, IsReturnable))
    ELSE IF s.kind = "FunctionDeclaration" THEN 0
    ELSE 1

(* Wanted(w, named, anon) that finds a NameValue by its name alone.        *)
WantedByName(w, named, anon) ==
    IF w.t = "Index" THEN w.x = anon
    ELSE \E i \in 1..Len(named) : named[i][1] = w.name

(* One wanted parameter is found.                                          *)
Wanted(w, named, anon) ==
    IF w.t = "Name" THEN \E i \in 1..Len(named) : named[i][1] = w.name
    ELSE IF w.t = "Index" THEN w.x = anon
    ELSE \E i \in 1..Len(named) : named[i][1] = w.name /\ named[i][2] = w.value

(* CallMatcher::matches: whatever has the nature of a call, of any name.   *)
MatchesCallMatcher(find, s) ==
    s.kind \in {"Exit", "Include", "Call", "FunctionDeclaration"}

(* Find::matches with FunctionNameMatcher { name, parameter }: the name    *)
(* is None for FunctionByParameter, the parameter for FunctionByName.      *)
Matches(find, s) ==
    /\ s.kind \in {"Exit", "Include", "Call", "FunctionDeclaration"}
    /\ IF s.token.category = "Undefined"
       THEN find.t = "FunctionByParameter" \/ find.name = s.token.text
       ELSE IF s.token.category = "Exit"
       THEN find.t = "FunctionByParameter" \/ find.name = KwExit
       ELSE IF s.token.category = "Include"
       THEN find.t = "FunctionByParameter" \/ find.name = KwInclude
       ELSE FALSE
    /\ \/ find.t = "FunctionByName"
       \/ /\ Len(find.parameter) = Len(NamedOf(s)) + AnonOf(s)
          /\ \A i \in 1..Len(find.parameter) :
                Wanted(find.parameter[i], NamedOf(s), AnonOf(s))

RECURSIVE StatementFind(_, _)
RECURSIVE Results(_, _)

(* Statement::find: the statement itself if it matches, then the matches   *)
(* among its sub-statements, in the order of the source.                   *)
StatementFind(s, find) ==
    (IF Matches(find, s) THEN <<s>> ELSE <<>>) \o Results(s.stmts, find)

(* The matches in a list of statements, one statement after the other.     *)
Results(stmts, find) ==
    IF stmts = <<>> THEN <<>>
    ELSE StatementFind(Head(stmts), find) \o Results(Tail(stmts), find)

(* CodeReplacer { offsets, code, changed }; panic stands for a panic of    *)
(* the replacer, log keeps for each splice the text and the ranges it was  *)
(* made with, last the arguments of the last replace_range.                *)
CodeReplacer(src) ==
    [offsets |-> <<>>, code |-> src, changed |-> FALSE, panic |-> FALSE, log |-> <<>>,
     last |-> <<>>]

RECURSIVE OffsetBefore(_, _)
(* The sum of the offsets recorded at a position before pos.               *)
OffsetBefore(offsets, pos) ==
    IF offsets = <<>> THEN 0
    ELSE (IF Head(offsets)[1] < pos THEN Head(offsets)[2] ELSE 0)
             + OffsetBefore(Tail(offsets), pos)

(* RangeWithOffset(cr, r) that forgets what earlier replacements have      *)
(* moved.                                                                  *)
RangeWithoutOffset(cr, r) == r

(* CodeReplacer::range_with_offset                                         *)
RangeWithOffset(cr, r) ==
    LET offset == OffsetBefore(cr.offsets, r[1])
    IN  <<r[1] + offset, r[2] + offset>>

(* A range a string can be sliced with; a sum below 0 becomes, as usize,   *)
(* an offset far behind the end.                                           *)
InRange(src, range) == 0 <= range[1] /\ range[1] <= range[2] /\ range[2] <= Len(src)

(* String::replace_range(start..end, new)                                  *)
StringReplaceRange(src, start, end, new) ==
    SubSeq(src, 1, start) \o new \o SubSeq(src, end + 1, Len(src))

(* ReplaceRange(cr, range, new, previous) that records a shrink at the end *)
(* of the text it has written.                                             *)
ReplaceRangeAtEnd(cr, range, new, previous) ==
    LET offset == Len(new) - (previous[2] - previous[1])
    IN  IF cr.panic THEN cr
        ELSE IF ~InRange(cr.code, range) THEN [cr EXCEPT !.panic = TRUE]
        ELSE [cr EXCEPT !.code = StringReplaceRange(@, range[1], range[2], new),
                        !.changed = TRUE,
                        !.last = <<[range |-> range, new |-> Len(new),
                                    previous |-> previous]>>,
                        !.offsets = IF offset < 0
                                    THEN Append(@, <<range[1] + Len(new), offset>>)
                                    ELSE IF offset > 0 THEN Append(@, <<previous[1], offset>>)
                                    ELSE @]

(* CodeReplacer::replace_range; String::replace_range panics on a range    *)
(* that is not in the string.                                              *)
ReplaceRange(cr, range, new, previous) ==
    LET offset == Len(new) - (previous[2] - previous[1])
    IN  IF cr.panic THEN cr
        ELSE IF ~InRange(cr.code, range) THEN [cr EXCEPT !.panic = TRUE]
        ELSE [cr EXCEPT !.code = StringReplaceRange(@, range[1], range[2], new),
                        !.changed = TRUE,
                        !.last = <<[range |-> range, new |-> Len(new),
                                    previous |-> previous]>>,
                        !.offsets = IF offset < 0 THEN Append(@, <<range[1], offset>>)
                                    ELSE IF offset > 0 THEN Append(@, <<previous[1], offset>>)
                                    ELSE @]

(* The replacer after a splice, with the splice in its log: the text       *)
(* before it, the position asked for in the coordinates of the source of   *)
(* the command, the range range_with_offset gave for it, the span of the   *)
(* source that is replaced, the offsets before and after it, the text      *)
(* after it, whether it panicked, and what replace_range was called with.  *)
Spliced(cr, position, range, span, after) ==
    [after EXCEPT !.log = Append(@, [code |-> cr.code, position |-> position,
                                     range |-> range, span |-> span,
                                     offsets |-> cr.offsets, recorded |-> after.offsets,
                                     text |-> after.code, failed |-> after.panic,
                                     splice |-> after.last])]

(* CodeReplacer::replace_range_with_offset                                 *)
ReplaceRangeWithOffset(cr, new, position) ==
    Spliced(cr, position, RangeWithOffset(cr, position), position,
            ReplaceRange(cr, RangeWithOffset(cr, position), new, position))

RECURSIVE CountAfter(_, _)
(* chars().skip(end).take_while(whitespace, comma, closing parenthesis)    *)
CountAfter(src, end) ==
    IF end < Len(src) /\ src[end + 1] \in Whitespace \cup {",", ")"}
    THEN 1 + CountAfter(src, end + 1)
    ELSE 0

RECURSIVE CountBefore(_, _)
(* code[0..start].chars().rev().take_while(whitespace, comma, opening      *)
(* parenthesis)                                                            *)
CountBefore(src, start) ==
    IF start > 0 /\ src[start] \in Whitespace \cup {",", "("}
    THEN 1 + CountBefore(src, start - 1)
    ELSE 0

(* The range remove_parameter cuts out, for the parameter at start..end    *)
(* of the current text.                                                    *)
RemovePosition(src, start, end) ==
    LET count == CountAfter(src, end)
        back == CountBefore(src, start)
    IN  IF count > 0 /\ src[end + count] = ")"
        THEN IF back > 0 /\ src[start - back + 1] = "(" THEN <<start, end>>
             ELSE <<start - back, end>>
        ELSE <<start, end + count>>

(* CodeReplacer::remove_parameter                                          *)
RemoveParameter(cr, s) ==
    LET Cut(r, np) ==
            Spliced(cr, s.position, r,
                    <<s.position[1] - (r[1] - np[1]), s.position[2] + (np[2] - r[2])>>,
                    ReplaceRange(cr, np, <<>>, np))
        Remove_(r) == IF ~InRange(cr.code, r) THEN [cr EXCEPT !.panic = TRUE]
                      ELSE Cut(r, RemovePosition(cr.code, r[1], r[2]))
    IN  IF cr.panic THEN cr ELSE Remove_(RangeWithOffset(cr, s.position))

(* CalculatePush(s, p) that writes the separator in an empty list too.     *)
CalculatePushSeparated(s, p) ==
    IF s.kind = "FunctionDeclaration"
    THEN IF p.t = "Named" THEN <<<<",", " ">> \o p.name>> ELSE <<>>
    ELSE IF p.t = "Named" THEN <<<<",", " ">> \o p.name \o <<":", " ">> \o p.value>>
    ELSE <<<<",", " ">> \o p.value>>

(* calculate_fn_decl and calculate_call of push_parameter, which           *)
(* calculate_unknown_index of add_parameter repeats: the text to write at  *)
(* the closing parenthesis, <<>> for None.                                 *)
CalculatePush(s, p) ==
    LET is_only == s.args = <<>>
        sep == IF is_only THEN <<>> ELSE <<",", " ">>
    IN  IF s.kind = "FunctionDeclaration"
        THEN IF p.t = "Named" THEN <<sep \o p.name>> ELSE <<>>
        ELSE IF p.t = "Named" THEN <<sep \o p.name \o <<":", " ">> \o p.value>>
        ELSE <<sep \o p.value>>

(* Writes np before what is at position.                                   *)
InsertBefore(cr, np, position) ==
    LET Insert(npos) ==
            IF ~InRange(cr.code, npos) THEN [cr EXCEPT !.panic = TRUE]
            ELSE Spliced(cr, position, npos, position,
                         ReplaceRange(cr, npos,
                                      np \o SubSeq(cr.code, npos[1] + 1, npos[2]), position))
    IN  IF cr.panic THEN cr ELSE Insert(RangeWithOffset(cr, position))

(* CodeReplacer::push_parameter                                            *)
PushParameter(cr, s, p) ==
    IF s.kind \in {"FunctionDeclaration", "Call"} /\ CalculatePush(s, p) # <<>>
    THEN InsertBefore(cr, CalculatePush(s, p)[1], s.end)
    ELSE cr

(* calculate_known_index of add_parameter                                  *)
CalculateKnownIndex(s, p) ==
    IF s.kind = "Call"
    THEN IF p.t = "Named" THEN <<p.name \o <<":", " ">> \o p.value \o <<",", " ">>>>
         ELSE <<p.value \o <<",", " ">>>>
    ELSE IF p.t = "Named" THEN <<p.name \o <<",", " ">>>> ELSE <<>>

(* AddParameter(cr, s, i, p) that pushes when there are fewer than i       *)
(* parameters.                                                             *)
AddParameterOrPush(cr, s, i, p) ==
    IF s.kind \in {"FunctionDeclaration", "Call"}
    THEN LET np == IF i < Len(s.args) THEN CalculateKnownIndex(s, p)
                   ELSE CalculatePush(s, p)
             position == IF i < Len(s.args) THEN s.args[i + 1].token.position ELSE s.end
         IN  IF np # <<>> THEN InsertBefore(cr, np[1], position) ELSE cr
    ELSE cr

(* CodeReplacer::add_parameter                                             *)
AddParameter(cr, s, i, p) ==
    IF s.kind \in {"FunctionDeclaration", "Call"} /\ (i <= Len(s.args) \/ i = 0)
    THEN LET np == IF i < Len(s.args) THEN CalculateKnownIndex(s, p)
                   ELSE CalculatePush(s, p)
             position == IF i < Len(s.args) THEN s.args[i + 1].token.position ELSE s.end
         IN  IF np # <<>> THEN InsertBefore(cr, np[1], position) ELSE cr
    ELSE cr

(* CodeReplacer::remove_indexed_parameter                                  *)
RemoveIndexedParameter(cr, s, i) ==
    IF s.kind \in {"FunctionDeclaration", "Call"} /\ i < Len(s.args)
    THEN RemoveParameter(cr, s.args[i + 1])
    ELSE cr

(* CodeReplacer::find_named_parameter: the first parameter of that name,   *)
(* <<>> for None.                                                          *)
FindNamedParameter(s, wanted) ==
    LET found == IF s.kind \in {"FunctionDeclaration", "Call"}
                 THEN SelectSeq(s.args,
                                LAMBDA x : /\ x.kind \in {"Variable", "NamedParameter"}
                                           /\ x.token.category = "Undefined"
                                           /\ x.token.text = wanted)
                 ELSE <<>>
    IN  IF found = <<>> THEN <<>> ELSE <<found[1]>>

(* CodeReplacer::remove_named_parameter                                    *)
RemoveNamedParameter(cr, s, wanted) ==
    IF FindNamedParameter(s, wanted) # <<>>
    THEN RemoveParameter(cr, FindNamedParameter(s, wanted)[1])
    ELSE cr

(* CodeReplacer::rename_parameter                                          *)
RenameParameter(cr, s, previous, new) ==
    IF FindNamedParameter(s, previous) # <<>>
    THEN ReplaceRangeWithOffset(cr, new, FindNamedParameter(s, previous)[1].token.position)
    ELSE cr

(* The span of the parameters, <<>> for None.                              *)
ParameterRange(s) ==
    IF s.kind \in {"FunctionDeclaration", "Call"}
    THEN IF s.args = <<>> THEN <<>>
         ELSE <<<<s.args[1].position[1], s.args[Len(s.args)].position[2]>>>>
    ELSE <<s.args[1].position>>

(* The parameter operations of replace_as_string.                          *)
ReplaceParameters(cr, s, op) ==
    IF op.t = "Push" THEN PushParameter(cr, s, op.p)
    ELSE IF op.t = "Add" THEN AddParameter(cr, s, op.i, op.p)
    ELSE IF op.t = "Remove" THEN RemoveIndexedParameter(cr, s, op.i)
    ELSE IF op.t = "RemoveNamed" THEN RemoveNamedParameter(cr, s, op.name)
    ELSE IF op.t = "Rename" THEN RenameParameter(cr, s, op.previous, op.new)
    ELSE IF ParameterRange(s) # <<>>
    THEN ReplaceRangeWithOffset(cr, <<>>, ParameterRange(s)[1])
    ELSE cr

(* CodeReplacer::replace_as_string: Name and Parameter are Unsupported on  *)
(* a statement that has no callee.                                         *)
ReplaceAsString(cr, s, r) ==
    IF r.t = "Remove"
    THEN [ok |-> TRUE, cr |-> ReplaceRangeWithOffset(cr, <<>>, s.position)]
    ELSE IF s.kind \notin {"FunctionDeclaration", "Call", "Exit", "Include"}
    THEN [ok |-> FALSE, cr |-> cr]
    ELSE IF r.t = "Name"
    THEN [ok |-> TRUE, cr |-> ReplaceRangeWithOffset(cr, r.name, s.token.position)]
    ELSE [ok |-> TRUE, cr |-> ReplaceParameters(cr, s, r.op)]

RECURSIVE ReplaceResults(_, _, _, _)
(* for s in results { replacer.replace_as_string(s, &r.with)?; }           *)
ReplaceResults(cr, results, i, with) ==
    IF i > Len(results) \/ cr.panic THEN [ok |-> TRUE, cr |-> cr]
    ELSE LET Rest(a) == IF ~a.ok THEN a ELSE ReplaceResults(a.cr, results, i + 1, with)
         IN  Rest(ReplaceAsString(cr, results[i], with))

(* What replace has done for one command: the text it started from,        *)
(* whether it parsed it, and the splices.                                  *)
CommandLog(src, cached_stmts, cr) ==
    [code |-> src, parsed |-> cached_stmts = <<>>, changed |-> cr.changed, log |-> cr.log]

RECURSIVE ReplaceCommandsStale(_, _, _, _)
(* ReplaceCommands(src, cached_stmts, replace, k) that keeps the cached    *)
(* statements when a command has changed the text.                         *)
ReplaceCommandsStale(src, cached_stmts, replace, k) ==
    IF k > Len(replace) THEN [ok |-> TRUE, code |-> src, panic |-> FALSE, log |-> <<>>]
    ELSE LET Logged(a, out) == [out EXCEPT !.log = <<CommandLog(src, cached_stmts, a.cr)>> \o @]
             Command(stmts, a) ==
                 IF a.cr.panic \/ ~a.ok
                 THEN Logged(a, [ok |-> FALSE, code |-> src, panic |-> a.cr.panic,
                                 log |-> <<>>])
                 ELSE Logged(a, ReplaceCommandsStale(IF a.cr.changed THEN a.cr.code ELSE src,
                                                     stmts, replace, k + 1))
             Cached(stmts) ==
                 Command(stmts, ReplaceResults(CodeReplacer(src),
                                               Results(stmts, replace[k].find), 1,
                                               replace[k].with))
         IN  Cached(IF cached_stmts = <<>> THEN OkStatements(Parse(src)) ELSE cached_stmts)

RECURSIVE ReplaceCommands(_, _, _, _)
(* The loop of CodeReplacer::replace over the commands.                    *)
ReplaceCommands(src, cached_stmts, replace, k) ==
    IF k > Len(replace) THEN [ok |-> TRUE, code |-> src, panic |-> FALSE, log |-> <<>>]
    ELSE LET Logged(a, out) == [out EXCEPT !.log = <<CommandLog(src, cached_stmts, a.cr)>> \o @]
             Command(stmts, a) ==
                 IF a.cr.panic \/ ~a.ok
                 THEN Logged(a, [ok |-> FALSE, code |-> src, panic |-> a.cr.panic,
                                 log |-> <<>>])
                 ELSE IF a.cr.changed
                 THEN Logged(a, ReplaceCommands(a.cr.code, <<>>, replace, k + 1))
                 ELSE Logged(a, ReplaceCommands(src, stmts, replace, k + 1))
             Cached(stmts) ==
                 Command(stmts, ReplaceResults(CodeReplacer(src),
                                               Results(stmts, replace[k].find), 1,
                                               replace[k].with))
         IN  Cached(IF cached_stmts = <<>> THEN OkStatements(Parse(src)) ELSE cached_stmts)

(* Replace(src, replace) that starts from the text of the first statement  *)
(* it can parse.                                                           *)
ReplaceParsed(src, replace) ==
    LET stmts == OkStatements(Parse(src))
    IN  ReplaceCommands(IF stmts = <<>> THEN <<>>
                        ELSE SubSeq(src, stmts[1].position[1] + 1, stmts[1].position[2]),
                        <<>>, replace, 1)

(* CodeReplacer::replace                                                   *)
Replace(src, replace) == ReplaceCommands(src, <<>>, replace, 1)

(* The pieces the sources are made of.                                     *)
NameAb == <<"a", "b">>
Pieces ==
    { \* while(ab(1)) include(x);
      KwWhile \o <<"(">> \o NameAb \o <<"(", "1", ")", ")", " ">> \o KwInclude
          \o <<"(", "x", ")", ";">>,
      \* c(ab(ab(1)),ab(1));
      <<"c", "(">> \o NameAb \o <<"(">> \o NameAb \o <<"(", "1", ")", ")", ",">>
          \o NameAb \o <<"(", "1", ")", ")", ";">>,
      \* x=ab (1); #ab(1)
      <<"x", "=">> \o NameAb \o <<" ", "(", "1", ")", ";", " ", "#">> \o NameAb
          \o <<"(", "1", ")", "\n">>,
      \* if(ab(1)) exit(ab(1));
      KwIf \o <<"(">> \o NameAb \o <<"(", "1", ")", ")", " ">> \o KwExit \o <<"(">>
          \o NameAb \o <<"(", "1", ")", ")", ";">>,
      \* function ab(){abc(1);}
      KwFunction \o <<" ">> \o NameAb \o <<"(", ")", "{">> \o NameAb
          \o <<"c", "(", "1", ")", ";", "}">>,
      \* ab((;   which does not parse
      NameAb \o <<"(", "(", ";">> }

RECURSIVE Concat(_)
Concat(pieces) == IF pieces = <<>> THEN <<>> ELSE Head(pieces) \o Concat(Tail(pieces))

Sources == {Concat(p) : p \in UNION {[1..n -> Pieces] : n \in 0..MaxPieces}}

(* The commands: a shorter, an equally long and a longer name for ab, and  *)
(* new names for exit and include.                                         *)
Commands ==
    {ReplaceCommand(FunctionByName(NameAb), ReplaceName(<<"z">>)),
     ReplaceCommand(FunctionByName(NameAb), ReplaceName(<<"y", "z">>)),
     ReplaceCommand(FunctionByName(NameAb), ReplaceName(<<"x", "y", "z">>)),
     ReplaceCommand(FunctionByName(KwExit), ReplaceName(<<"z">>)),
     ReplaceCommand(FunctionByName(KwInclude), ReplaceName(<<"x", "y", "z">>))}

InitReplace ==
    /\ code = <<>>
    /\ lexer = 0
    /\ interpreter = InterpreterNew(RegisterDefault, ContextNew(FALSE))
    /\ statement = 0
    /\ kb = <<>>
    /\ plan = <<>>
    /\ driver = "replace"
    /\ ended = FALSE
    /\ trace = <<>>
    /\ call = NoCall
    /\ update = NoUpdate
    /\ functions = NoFunctions
    /\ scanner = NoScanner
    /\ \E src \in Sources, r \in UNION {[1..n -> Commands] : n \in 0..MaxCommands} :
          replacer = [NoReplacer EXCEPT !.code = src, !.replace = r]

(* CodeReplacer::replace(code, replace)                                    *)
ReplaceCall ==
    /\ driver = "replace"
    /\ ~replacer.done
    /\ LET Finished(a) == [replacer EXCEPT !.result = [ok |-> a.ok, code |-> a.code],
                                           !.panic = a.panic,
                                           !.log = a.log,
                                           !.done = TRUE]
       IN  replacer' = Finished(Replace(replacer.code, replacer.replace))
    /\ ended' = TRUE
    /\ UNCHANGED <<code, lexer, interpreter, statement, kb, plan, driver, trace, call,
                   update, functions, scanner>>

NextReplace == ReplaceCall

SpecReplace == InitReplace /\ [][NextReplace]_vars

(* SpecRewrite: the rewriter with the parameter operations and with more   *)
(* than one command.  The pieces its sources are made of: calls in the     *)
(* parameters of calls, named and anonymous parameters, a declaration with *)
(* and without parameters, a call without parameters, exit and include.    *)
RewritePieces ==
    <<
      \* ab(1, 2); ab(ab(a: 1, 2), 3);
      <<"a", "b", "(", "1", ",", " ", "2", ")", ";", " ", "a", "b", "(", "a",
        "b", "(", "a", ":", " ", "1", ",", " ", "2", ")", ",", " ", "3", ")",
        ";">>,
      \* c(ab(a: 1), 2); ab(a: 1, b: 2);
      <<"c", "(", "a", "b", "(", "a", ":", " ", "1", ")", ",", " ", "2", ")",
        ";", " ", "a", "b", "(", "a", ":", " ", "1", ",", " ", "b", ":", " ",
        "2", ")", ";">>,
      \* function ab(a, b){ab();}
      <<"f", "u", "n", "c", "t", "i", "o", "n", " ", "a", "b", "(", "a", ",",
        " ", "b", ")", "{", "a", "b", "(", ")", ";", "}">>,
      \* if(ab(a: 2)) exit(1);
      <<"i", "f", "(", "a", "b", "(", "a", ":", " ", "2", ")", ")", " ", "e",
        "x", "i", "t", "(", "1", ")", ";">>,
      \* function ab(){} include(ab(2));
      <<"f", "u", "n", "c", "t", "i", "o", "n", " ", "a", "b", "(", ")", "{",
        "}", " ", "i", "n", "c", "l", "u", "d", "e", "(", "a", "b", "(", "2",
        ")", ")", ";">> >>

(* The sources: up to MaxCalls of the pieces, in the order of the list.    *)
RewriteSources ==
    {Concat([k \in 1..Len(ix) |-> RewritePieces[ix[k]]]) :
        ix \in {f \in UNION {[1..n -> 1..Len(RewritePieces)] : n \in 0..MaxCalls} :
                   \A k \in 1..(Len(f) - 1) : f[k] < f[k + 1]}}

NameZ == <<"z">>
NameC == <<"c">>
NamedX == ParameterNamed(<<"x">>, <<"1">>)
AnonThree == ParameterAnon(<<"3">>)

(* The first command of a list: new names for what is found by name, by    *)
(* parameter or by both, and every parameter operation on ab.              *)
RewriteCommands ==
    {ReplaceCommand(FunctionByName(NameAb), ReplaceName(NameZ)),
     ReplaceCommand(FunctionByName(NameAb), ReplaceName(NameC)),
     ReplaceCommand(FunctionByParameter(<<ParameterIndex(1)>>), ReplaceName(NameZ)),
     ReplaceCommand(FunctionByNameAndParameter(NameAb, <<ParameterName(<<"a">>),
                                                         ParameterName(<<"b">>)>>),
                    ReplaceName(NameZ)),
     ReplaceCommand(FunctionByNameAndParameter(NameAb,
                                               <<ParameterNameValue(<<"a">>, <<"1">>)>>),
                    ReplaceName(NameZ)),
     ReplaceCommand(FunctionByName(NameAb), ReplaceRemove)}
    \cup {ReplaceCommand(FunctionByName(NameAb), ReplaceParameter(op)) :
             op \in {Push(NamedX), Push(AnonThree), Add(0, NamedX), Add(1, AnonThree),
                     Add(1, NamedX), Add(2, NamedX), Add(3, NamedX),
                     RemoveNamed(<<"a">>), Remove(0), Remove(1), RemoveAll}}

(* The commands that follow the first one: the names back, the same        *)
(* rename again, and what finds, renames and removes a pushed parameter.   *)
FollowUps ==
    {ReplaceCommand(FunctionByName(NameZ), ReplaceName(NameAb)),
     ReplaceCommand(FunctionByName(NameC), ReplaceName(NameAb)),
     ReplaceCommand(FunctionByName(NameAb), ReplaceName(NameZ)),
     ReplaceCommand(FunctionByName(NameAb), ReplaceParameter(Rename(<<"x">>, <<"y">>))),
     ReplaceCommand(FunctionByName(NameAb), ReplaceParameter(RemoveNamed(<<"x">>))),
     ReplaceCommand(FunctionByNameAndParameter(NameAb, <<ParameterName(<<"x">>)>>),
                    ReplaceName(NameZ))}

RewriteLists ==
    {<<>>} \cup {<<c>> \o f : c \in RewriteCommands,
                              f \in UNION {[1..n -> FollowUps] : n \in 0..MaxFollowUps}}

InitRewrite ==
    /\ code = <<>>
    /\ lexer = 0
    /\ interpreter = InterpreterNew(RegisterDefault, ContextNew(FALSE))
    /\ statement = 0
    /\ kb = <<>>
    /\ plan = <<>>
    /\ driver = "replace"
    /\ ended = FALSE
    /\ trace = <<>>
    /\ call = NoCall
    /\ update = NoUpdate
    /\ functions = NoFunctions
    /\ scanner = NoScanner
    /\ \E src \in RewriteSources, r \in RewriteLists :
          replacer = [NoReplacer EXCEPT !.code = src, !.replace = r]

SpecRewrite == InitRewrite /\ [][NextReplace]_vars

-----------------------------------------------------------------------------
(* SpecLookup: the function register.  A module is a NaslFunctionExecuter: *)
(* its name and the keys its lookup knows.  A function is named by its     *)
(* module and its key; an Option is <<>> for None and <<x>> for Some(x);   *)
(* the result of a call is the function that has been called.              *)

None == <<>>
Some(x) == <<x>>

Module(name, keys) == [name |-> name, keys |-> keys]
NaslFunction(module, key) == [module |-> module, key |-> key]
Called(function) == [called |-> function]

(* nasl_builtin_knowledge_base::lookup                                     *)
KnowledgeBase ==
    Module("KnowledgeBase", {"set_kb_item", "get_kb_item", "get_kb_list", "replace_kb_item"})

(* built_in_functions::misc::lookup                                        *)
Misc == Module("Misc", {"rand", "get_byte_order", "dec2str", "isnull", "unixtime"})

(* A module whose lookup is not among the sources: none of its keys is     *)
(* known.                                                                  *)
Unlisted(name) == Module(name, {})

(* An executer of the embedding program, which push_register takes as any  *)
(* other: it claims a key of KnowledgeBase and a key of Misc.              *)
Overrides == Module("Overrides", {"get_kb_item", "rand"})

(* match key { "..." => Some(function), _ => None }                        *)
ModuleLookup(m, key) == IF key \in m.keys THEN Some(NaslFunction(m.name, key)) ELSE None

(* nasl_fn_execute of a module: lookup(name).map(|x| x(register, context)) *)
ModuleExecute(m, name) ==
    LET Map(f) == IF f = None THEN None ELSE Some(Called(f[1]))
    IN  Map(ModuleLookup(m, name))

(* nasl_fn_defined of a module: lookup(name).is_some()                     *)
ModuleDefined(m, name) == ModuleLookup(m, name) # None

RECURSIVE RegisterExecuteLast(_, _)
(* A register in which the last module that claims the name is executed.   *)
RegisterExecuteLast(executor, name) ==
    IF executor = <<>> THEN None
    ELSE LET Last(r) == IF r # None THEN r
                        ELSE RegisterExecuteLast(SubSeq(executor, 1, Len(executor) - 1), name)
         IN  Last(ModuleExecute(executor[Len(executor)], name))

RECURSIVE RegisterExecute(_, _)
(* NaslFunctionRegister::nasl_fn_execute: the modules are asked in the     *)
(* order they were pushed, the first result that is Some is returned.      *)
RegisterExecute(executor, name) ==
    IF executor = <<>> THEN None
    ELSE LET First(r) == IF r # None THEN r ELSE RegisterExecute(Tail(executor), name)
         IN  First(ModuleExecute(Head(executor), name))

RECURSIVE RegisterDefined(_, _)
(* NaslFunctionRegister::nasl_fn_defined: true at the first module that    *)
(* defines the name.                                                       *)
RegisterDefined(executor, name) ==
    IF executor = <<>> THEN FALSE
    ELSE IF ModuleDefined(Head(executor), name) THEN TRUE
    ELSE RegisterDefined(Tail(executor), name)

(* Option::or_else                                                         *)
OrElse(a, b) == IF a # None THEN a ELSE b

(* The modules of built_in_functions in the order lookup asks them.        *)
BuiltInModules ==
    <<Unlisted("description"), Module("kb", KnowledgeBase.keys), Unlisted("hostname"),
      Module("misc", Misc.keys), Unlisted("string"), Unlisted("array"),
      Unlisted("function"), Unlisted("cryptography"), Unlisted("frame_forgery")>>

RECURSIVE LookupFrom(_, _)
(* description::lookup(name).or_else(|| kb::lookup(name)).or_else(...)     *)
LookupFrom(k, function_name) ==
    IF k > Len(BuiltInModules) THEN None
    ELSE OrElse(ModuleLookup(BuiltInModules[k], function_name),
                LookupFrom(k + 1, function_name))

(* built_in_functions::lookup                                              *)
Lookup(function_name) == LookupFrom(1, function_name)

(* nasl_std_functions: the modules in the order they are pushed; ssh and   *)
(* raw_ip are pushed when their features are compiled in.                  *)
StdModules(ssh, raw_ip) ==
    <<Unlisted("Std"), KnowledgeBase, Misc, Unlisted("NaslString"), Unlisted("Host"),
      Unlisted("NaslHttp"), Unlisted("Cryptographic"), Unlisted("Description")>>
    \o (IF ssh THEN <<Unlisted("Ssh")>> ELSE <<>>)
    \o (IF raw_ip THEN <<Unlisted("RawIp")>> ELSE <<>>)

(* The modules a caller pushes and the names that are looked up.           *)
Modules == {KnowledgeBase, Misc, Overrides, Unlisted("Std")}
FunctionNames == {"get_kb_item", "replace_kb_item", "rand", "isnull", "no_such_function"}

InitLookup ==
    /\ code = <<>>
    /\ lexer = 0
    /\ interpreter = InterpreterNew(RegisterDefault, ContextNew(FALSE))
    /\ statement = 0
    /\ kb = <<>>
    /\ plan = <<>>
    /\ driver = "functions"
    /\ ended = FALSE
    /\ trace = <<>>
    /\ call = NoCall
    /\ update = NoUpdate
    /\ replacer = NoReplacer
    /\ functions = NoFunctions
    /\ scanner = NoScanner

(* NaslfunctionRegisterBuilder::push_register                              *)
PushRegister ==
    /\ driver = "functions"
    /\ ~functions.built
    /\ Len(functions.executor) < MaxModules
    /\ \E m \in Modules : functions' = [functions EXCEPT !.executor = Append(@, m)]
    /\ UNCHANGED <<code, lexer, interpreter, statement, kb, plan, driver, ended, trace,
                   call, update, replacer, scanner>>

(* NaslfunctionRegisterBuilder::build                                      *)
Build ==
    /\ driver = "functions"
    /\ ~functions.built
    /\ functions' = [functions EXCEPT !.built = TRUE]
    /\ UNCHANGED <<code, lexer, interpreter, statement, kb, plan, driver, ended, trace,
                   call, update, replacer, scanner>>

(* nasl_std_functions()                                                    *)
NaslStdFunctions ==
    /\ driver = "functions"
    /\ ~functions.built
    /\ functions.executor = <<>>
    /\ \E ssh \in BOOLEAN, raw_ip \in BOOLEAN :
          functions' = [functions EXCEPT !.executor = StdModules(ssh, raw_ip),
                                         !.built = TRUE]
    /\ UNCHANGED <<code, lexer, interpreter, statement, kb, plan, driver, ended, trace,
                   call, update, replacer, scanner>>

(* NaslFunctionRegister::nasl_fn_execute(name, register, context)          *)
NaslFnExecuteCall ==
    /\ driver = "functions"
    /\ functions.built
    /\ \E name \in FunctionNames :
          functions' = [functions EXCEPT
                           !.last = [op |-> "nasl_fn_execute", name |-> name,
                                     r |-> RegisterExecute(functions.executor, name)]]
    /\ UNCHANGED <<code, lexer, interpreter, statement, kb, plan, driver, ended, trace,
                   call, update, replacer, scanner>>

(* NaslFunctionRegister::nasl_fn_defined(name)                             *)
NaslFnDefinedCall ==
    /\ driver = "functions"
    /\ functions.built
    /\ \E name \in FunctionNames :
          functions' = [functions EXCEPT
                           !.last = [op |-> "nasl_fn_defined", name |-> name,
                                     r |-> RegisterDefined(functions.executor, name)]]
    /\ UNCHANGED <<code, lexer, interpreter, statement, kb, plan, driver, ended, trace,
                   call, update, replacer, scanner>>

(* built_in_functions::lookup(function_name)                               *)
LookupCall ==
    /\ driver = "functions"
    /\ functions.built
    /\ \E name \in FunctionNames :
          functions' = [functions EXCEPT
                           !.last = [op |-> "lookup", name |-> name, r |-> Lookup(name)]]
    /\ UNCHANGED <<code, lexer, interpreter, statement, kb, plan, driver, ended, trace,
                   call, update, replacer, scanner>>

NextLookup ==
    \/ PushRegister
    \/ Build
    \/ NaslStdFunctions
    \/ NaslFnExecuteCall
    \/ NaslFnDefinedCall
    \/ LookupCall

SpecLookup == InitLookup /\ [][NextLookup]_vars

-----------------------------------------------------------------------------
(* Properties.                                                             *)

Sibs == interpreter.forked_interpreter

(* How often the history h holds statement t.                              *)
CountStmt(h, t) == Cardinality({k \in 1..Len(h) : h[k].stmt = t})

(* C1: under next_, once the root has resolved the statement after a       *)
(* forking statement S, every sibling of the root's list that existed      *)
(* after S has resolved S exactly once.                                    *)
C1_SiblingsResolveForkStatement ==
    driver = "next_" =>
        \A i \in 1..Len(Sibs), k \in 1..Len(Sibs) :
            LET S == Sibs[k].born
            IN  (Sibs[i].born <= S /\ Len(interpreter.hist) > S)
                    => CountStmt(Sibs[i].hist, S) = 1

(* C2: a next_interpreter call that returns None leaves the rotation index *)
(* at 0.                                                                   *)
C2_NoneResetsRotation ==
    (call.op = "next_interpreter" /\ call.ret = 0)
        => interpreter.forked_interpreter_index = 0

(* The script of the test rests::code_interpreter.                         *)
TestScript == <<SetKb(1), SetKb(2), Display(GetKb)>>

OkResults == SelectSeq(trace, LAMBDA x : x.r.ok)

(* C3: the test script, collected through stream() with the errors         *)
(* filtered out, gives four Null values.                                   *)
C3_StreamGivesFourNulls ==
    (driver = "stream" /\ ended /\ code = TestScript)
        => [i \in 1..Len(OkResults) |-> OkResults[i].r.v] = <<Null, Null, Null, Null>>

(* The calls of SpecApi that resolve a statement.                          *)
ResolveOps == {"resolve", "retry_resolve", "retry_resolve_next"}

(* The cursor a call finds when it enters resolve: retry_resolve_next      *)
(* advances the last index first.                                          *)
CursorAt(op, in) ==
    IF op = "retry_resolve_next" /\ in.position # <<>>
    THEN [in.position EXCEPT ![Len(in.position)] = @ + 1]
    ELSE in.position

(* C4: an interpreter whose skip_until_return is (p, v) answers a resolve  *)
(* with Null, evaluating nothing and changing neither its register nor the *)
(* storage, while its cursor differs from p; the resolve whose cursor is p *)
(* answers v and clears skip_until_return; an interpreter without          *)
(* skip_until_return evaluates the statement and never emits a value.      *)
C4_SkipUntilReturn ==
    [][call'.op \in ResolveOps =>
          LET sk == interpreter.skip_until_return
              cur == CursorAt(call'.op, interpreter)
              ev == call'.ev
          IN  IF sk.set /\ cur # sk.p
              THEN /\ call'.r = Ok(Null)
                   /\ Len(ev) = 1 /\ ev[1].how = "null"
                   /\ interpreter'.registrat = interpreter.registrat
                   /\ interpreter'.skip_until_return = sk
                   /\ interpreter'.forked_interpreter = interpreter.forked_interpreter
                   /\ kb' = kb
              ELSE IF sk.set
              THEN /\ call'.r = Ok(sk.v)
                   /\ Len(ev) = 1 /\ ev[1].how = "emit"
                   /\ interpreter'.registrat = interpreter.registrat
                   /\ ~interpreter'.skip_until_return.set
              ELSE /\ ~interpreter'.skip_until_return.set
                   /\ \A k \in 1..Len(ev) : ev[k].how \in {"eval", "io"}
                   /\ ev[Len(ev)].how = "eval"]_vars

(* A sibling that started before its recorded position has been advanced   *)
(* to it and has emitted its value.                                        *)
C4_Witness ==
    /\ call.op = "retry_resolve_next"
    /\ call.r = Ok(Number(2))
    /\ call.ev # <<>> /\ call.ev[1].how = "emit"
    /\ interpreter.position = <<2>>
    /\ ~interpreter.skip_until_return.set

(* Every interpreter of the fork tree: the root, the siblings of its list  *)
(* and the siblings those have spawned (which are never driven, so the     *)
(* tree ends there).                                                       *)
Tree ==
    {interpreter}
        \cup {Sibs[i] : i \in 1..Len(Sibs)}
        \cup UNION {{Sibs[i].forked_interpreter[c] :
                        c \in 1..Len(Sibs[i].forked_interpreter)} : i \in 1..Len(Sibs)}

(* C5: under next_, a stored fork value is emitted only as the result of   *)
(* the top-level statement that produced the fork, and when the script has *)
(* been driven to its end no stored value is still waiting.                *)
C5_ForkValueAtForkStatement ==
    driver = "next_" =>
        /\ \A in \in Tree : \A k \in 1..Len(in.hist) :
               in.hist[k].how = "emit" => in.hist[k].stmt = in.born
        /\ ended => \A in \in Tree : ~in.skip_until_return.set

ForkStmts == {GetKb, Display(GetKb), Assign("x", GetKb)}

(* The number of continuations there are before statement t when every    *)
(* fork before it yields width values.                                     *)
RECURSIVE Continuations(_, _)
Continuations(t, width) ==
    IF t <= 1 THEN 1
    ELSE Continuations(t - 1, width) * (IF code[t - 1] \in ForkStmts THEN width ELSE 1)

(* C6: under next_, in a script whose first statement forks, that stores   *)
(* nothing itself and meets no error, every statement is resolved once per *)
(* continuation it ends with: m * n times after two forks of m and n       *)
(* values.                                                                 *)
C6_EveryContinuationDriven ==
    (/\ driver = "next_" /\ ended
     /\ code[1] \in ForkStmts
     /\ \A t \in 1..Len(code) : code[t].name # "set_kb_item"
     /\ \A k \in 1..Len(trace) : trace[k].r.ok
     /\ kb # <<>>)
        => \A t \in 1..Len(code) :
              Cardinality({k \in 1..Len(trace) : trace[k].stmt = t})
                  = Continuations(t + 1, Len(kb))

(* C7: every interpreter resolves the statements one after the other in    *)
(* source order, none before its creation, none twice, and under next_ a   *)
(* script driven to its end has taken every interpreter created before the *)
(* last statement through that last statement.                             *)
C7_SourceOrder ==
    \A in \in Tree :
        /\ \A k \in 1..Len(in.hist) : in.hist[k].stmt >= in.born
        /\ \A k \in 1..(Len(in.hist) - 1) : in.hist[k + 1].stmt = in.hist[k].stmt + 1
        /\ (driver = "next_" /\ ended /\ in.born < Len(code))
               => (in.hist # <<>> /\ in.hist[Len(in.hist)].stmt = Len(code))

(* C8: in every step of the driver the register of an interpreter that was *)
(* not driven in that step is unchanged, and a sibling created in the step *)
(* starts with the register its creator had when the statement began (the  *)
(* statements of the model fork before they bind anything).                *)
C8_RegistersNotShared ==
    [][/\ interpreter'.hist = interpreter.hist
            => interpreter'.registrat = interpreter.registrat
       /\ \A i \in 1..Len(Sibs) :
            LET old == Sibs[i]
                new == interpreter'.forked_interpreter[i]
            IN  /\ new.hist = old.hist => new.registrat = old.registrat
                /\ \A c \in 1..Len(old.forked_interpreter) :
                       new.forked_interpreter[c] = old.forked_interpreter[c]
                /\ \A c \in (Len(old.forked_interpreter) + 1)..Len(new.forked_interpreter) :
                       new.forked_interpreter[c].registrat = old.registrat
       /\ \A i \in (Len(Sibs) + 1)..Len(interpreter'.forked_interpreter) :
            interpreter'.forked_interpreter[i].registrat = interpreter.registrat]_vars

(* A sibling still holds the register it was created with (x bound to 5 by *)
(* the statement before the fork) while its creator, the root, has bound x *)
(* to the fork value since.                                                *)
C8_Witness ==
    /\ driver = "next_"
    /\ Len(Sibs) >= 1
    /\ Sibs[1].hist # <<>>
    /\ Sibs[1].registrat[1]["x"] = Number(5)
    /\ interpreter.registrat[1]["x"] = Number(1)

(* The resolves of the statement a call was made with: the events of the   *)
(* interpreter itself at the depth of a top-level statement.               *)
TopEvents(ev) == SelectSeq(ev, LAMBDA x : x.lvl = 0 /\ x.d = 2)

Requests(ev) == SelectSeq(ev, LAMBDA x : x.k = "Request")

RetryOps == {"retry_resolve", "retry_resolve_next"}

(* C9: every attempt that retry_resolve follows with another one failed    *)
(* with LoadError::Retry, StorageError::Retry or IOError(Interrupted), and *)
(* the result of the call is the result of its last attempt: an attempt    *)
(* failing with any other error is the last one and its error is returned. *)
C9_RetryOnlyRetriable ==
    call.op \in RetryOps =>
        LET top == TopEvents(call.ev)
        IN  /\ Len(top) >= 1
            /\ \A k \in 1..(Len(top) - 1) :
                   top[k].e \in {"LoadRetry", "StorageRetry", "IOInterrupted"}
            /\ call.r.e = top[Len(top)].e
            /\ call.r.ok = (top[Len(top)].e = "")

(* A loader that answers Retry and then NotFound: the call stops at the    *)
(* second attempt with budget left and returns NotFound.                   *)
C9_Witness ==
    /\ call.op = "retry_resolve"
    /\ call.n >= 2
    /\ code[call.stmt] = IncStmt
    /\ Len(TopEvents(call.ev)) = 2
    /\ call.r = Err("LoadNotFound")

(* What the environment answers to the k-th request of a call.             *)
PlannedOutcome(pl, k) == IF k <= Len(pl) THEN pl[k] ELSE "Ok"

(* The first request that is not answered with a retriable error.          *)
FirstSettled(pl) ==
    CHOOSE k \in 1..(Len(pl) + 1) :
        /\ PlannedOutcome(pl, k) \notin {"LoadRetry", "StorageRetry", "IOInterrupted"}
        /\ \A j \in 1..(k - 1) :
               PlannedOutcome(pl, j) \in {"LoadRetry", "StorageRetry", "IOInterrupted"}

(* C10: retry_resolve(stmt, n) resolves stmt at most n + 1 times and once  *)
(* when n = 0.  For a statement that makes one request per attempt: when   *)
(* the first k - 1 requests fail with retriable errors and request k       *)
(* (k <= n + 1) does not, the call makes exactly k attempts and returns    *)
(* the result of attempt k; when n + 1 requests fail with retriable errors *)
(* the call makes n + 1 attempts and returns the last error.               *)
C10_RetryBudget ==
    call.op \in RetryOps =>
        LET top == TopEvents(call.ev)
            n == call.n
            k == FirstSettled(call.plan)
            one == code[call.stmt] \in {IncStmt, SetKb(1)}
        IN  /\ Len(top) <= n + 1
            /\ n = 0 => Len(top) = 1
            /\ ~one => (Len(top) = 1 /\ call.r.ok)
            /\ (one /\ k <= n + 1) =>
                   /\ Len(top) = k
                   /\ Len(Requests(call.ev)) = k
                   /\ IF PlannedOutcome(call.plan, k) = "Ok"
                      THEN call.r = Ok(Null)
                      ELSE call.r = Err(PlannedOutcome(call.plan, k))
            /\ (one /\ k > n + 1) =>
                   /\ Len(top) = n + 1
                   /\ Len(Requests(call.ev)) = n + 1
                   /\ call.r = Err(PlannedOutcome(call.plan, n + 1))

(* The retry scenario: load answers Retry twice, then succeeds;            *)
(* retry_resolve(include, 3) succeeds after exactly three load attempts.   *)
C10_Witness ==
    /\ call.op = "retry_resolve"
    /\ call.n = 3
    /\ code[call.stmt] = IncStmt
    /\ call.plan = <<"LoadRetry", "LoadRetry">>
    /\ call.r = Ok(Null)
    /\ Len(Requests(call.ev)) = 3
    /\ interpreter.registrat[1]["y"] = Number(7)

(* C11: a resolve of a Block returns with as many frames in the register   *)
(* as it was entered with, whatever its outcome, and a call that resolves  *)
(* a statement, retries included, leaves the register with the number of   *)
(* frames it had before the call.                                          *)
C11_BlockKeepsFrames ==
    (driver = "resolve" /\ call.op # "none") =>
        /\ \A k \in 1..Len(call.ev) :
               call.ev[k].k = "Block" => call.ev[k].f1 = call.ev[k].f0
        /\ Len(interpreter.registrat) = Len(call.pre[1].registrat)

(* C12: once a statement resolved by an interpreter has yielded Exit(n),   *)
(* the driver has that interpreter resolve no further statement.           *)
C12_NoStatementAfterExit ==
    \A j \in 1..Len(trace) : \A k \in (j + 1)..Len(trace) :
        (trace[j].r.ok /\ trace[j].r.v.t = "Exit") => trace[k].who # trace[j].who

(* The resolves of a call that returned an error, in the order in which    *)
(* they returned: the first is the deepest.                                *)
ErrorEvents(ev) == SelectSeq(ev, LAMBDA x : x.k # "Request" /\ x.e # "")

(* C13: every resolve that returns an error returns it with an origin, and *)
(* the origin is the statement of the deepest resolve that returned it.    *)
C13_ErrorHasDeepestOrigin ==
    (driver = "resolve" /\ call.op = "resolve") =>
        LET errs == ErrorEvents(call.ev)
        IN  \A k \in 1..Len(errs) : errs[k].o = <<errs[1].st>>

(* C14: with the cancellation signal of the context set, a resolve returns *)
(* Error::Cancelled and evaluates nothing.                                 *)
C14_CancelledAtBoundary ==
    (driver = "resolve" /\ call.op = "resolve"
     /\ interpreter.ctxconfigs.cancelled) =>
        /\ call.r = Err("Cancelled")
        /\ Len(call.ev) = 1
        /\ interpreter.registrat = call.pre[1].registrat
        /\ kb = <<>>

(* The verified scripts of the verifier: the entries single is to run.     *)
IsVerifiedScript(x) == x.ok /\ EndsWith(x.filename, NaslSuffix) /\ x.verify

(* C15: the feed version is published after the verifier is exhausted and  *)
(* every verified script of it has been loaded, and nothing is loaded,     *)
(* verified or stored after the publication.                               *)
C15_VersionPublishedLast ==
    \A i \in 1..Len(update.log) :
        update.log[i].op = "Version" =>
            /\ i = Len(update.log)
            /\ update.verifier = <<>>
            /\ update.feed_version_set
            /\ \A f \in 1..Len(update.files) :
                   IsVerifiedScript(update.files[f]) =>
                       \E j \in 1..(i - 1) : /\ update.log[j].op = "load"
                                             /\ update.log[j].item = update.files[f]

(* The version has been published after two entries of the verifier, a    *)
(* script among them, and next() has returned None since.                  *)
C15_Witness ==
    /\ driver = "update"
    /\ ended
    /\ Len(update.files) = 2
    /\ \E f \in 1..2 : IsVerifiedScript(update.files[f])
    /\ update.log # <<>>
    /\ update.log[Len(update.log)].op = "Version"
    /\ update.log[Len(update.log)].key = <<"v1">>

(* C16: a script whose processing fails is reported by next() as an Err    *)
(* with the script's path as key, and the updater goes on: it never stops  *)
(* in the middle of the verifier.                                          *)
C16_ScriptFailureReported ==
    driver = "update" =>
        /\ ~update.panicked
        /\ \A k \in 1..Len(update.single) :
               LET c == update.single[k]
               IN  ~c.r.ok => \E o \in 1..Len(update.out) :
                                  update.out[o] = ErrOut(c.item.filename, c.r.kind)

(* C17: single returns Ok(n) for a loaded script exactly when a statement  *)
(* of it yields Exit(n), and MissingExit when the script has no exit.      *)
C17_SingleReportsExit ==
    \A k \in 1..Len(update.single) :
        LET c == update.single[k]
        IN  c.item.load = "Ok" =>
                /\ ~c.panic
                /\ IF c.item.script = ExitScript THEN c.r = SingleOk(0)
                   ELSE c.r = SingleErr("MissingExit")

(* The entries the verifier has yielded so far.                            *)
Consumed == SubSeq(update.files, 1, Len(update.files) - Len(update.verifier))

(* C18, as stated: every file the updater loads has a name ending in .nasl *)
(* and a verified hash.                                                    *)
C18_OnlyVerifiedNaslLoaded ==
    \A i \in 1..Len(update.log) :
        update.log[i].op = "load" =>
            /\ EndsWith(update.log[i].key, NaslSuffix)
            /\ update.log[i].item.verify

(* C18, amended: single is called, and a verifier entry loaded, only for   *)
(* an entry whose name ends in .nasl and whose hash verifies; every Err    *)
(* item and every .nasl entry whose hash does not verify yields one error  *)
(* and is not loaded; the one other file loaded is the feed info, after    *)
(* the verifier is exhausted.                                              *)
C18_OnlyVerifiedScriptsRun ==
    /\ \A k \in 1..Len(update.single) : IsVerifiedScript(update.single[k].item)
    /\ \A i \in 1..Len(update.log) :
           update.log[i].op = "load" =>
               \/ IsVerifiedScript(update.log[i].item)
               \/ /\ update.log[i].item = FeedInfoItem(update)
                  /\ update.verifier = <<>>
                  /\ \A j \in (i + 1)..Len(update.log) : update.log[j].op = "Version"
    /\ Cardinality({o \in 1..Len(update.out) : update.out[o].kind = "VerifyError"})
           = Cardinality({f \in 1..Len(Consumed) :
                             \/ ~Consumed[f].ok
                             \/ /\ EndsWith(Consumed[f].filename, NaslSuffix)
                                /\ ~Consumed[f].verify})

(* The verifier has yielded a script whose hash does not verify, which     *)
(* gave an error without a load, and a verified script, which has been     *)
(* loaded; then the feed info has been loaded.                             *)
C18_Witness ==
    /\ Len(update.files) = 2
    /\ update.files[1].ok
    /\ EndsWith(update.files[1].filename, NaslSuffix) /\ ~update.files[1].verify
    /\ IsVerifiedScript(update.files[2])
    /\ Len(update.out) = 3 /\ Len(update.log) > 0
    /\ update.out[1] = ErrOut(update.files[1].filename, "VerifyError")
    /\ \A i \in 1..Len(update.log) :
           update.log[i].op = "load" => update.log[i].item # update.files[1]
    /\ \E i \in 1..Len(update.log) :
           update.log[i].op = "load" /\ update.log[i].item = update.files[2]
    /\ update.log[Len(update.log)].item = FeedInfoItem(update)

RECURSIVE SubStatements(_)
(* A statement and everything nested in it, at any depth.                  *)
SubStatements(s) ==
    {s} \cup UNION {SubStatements(s.stmts[i]) : i \in 1..Len(s.stmts)}

(* The statements of the source, at any depth, that the command's find     *)
(* matches.                                                                *)
Matching(src, find) ==
    LET top == OkStatements(Parse(src))
    IN  {s \in UNION {SubStatements(top[i]) : i \in 1..Len(top)} : Matches(find, s)}

(* The callees as the tokens show them: an identifier, exit or include     *)
(* with the text name, followed by an opening parenthesis.                 *)
CalleeSpans(src, name) ==
    LET toks == Tokenize(src)
    IN  {toks[k].position :
            k \in {j \in 1..Len(toks) :
                      /\ toks[j].category \in {"Undefined", "Exit", "Include"}
                      /\ toks[j].text = name
                      /\ TokenAt(toks, j + 1).category = "("}}

RECURSIVE SpliceAll(_, _, _)
(* The source with new written over every span, the last span first, so    *)
(* that no span moves before it is written.                                *)
SpliceAll(src, spans, new) ==
    IF spans = {} THEN src
    ELSE LET last == CHOOSE p \in spans : \A q \in spans : q[1] <= p[1]
         IN  SpliceAll(StringReplaceRange(src, last[1], last[2], new),
                       spans \ {last}, new)

(* Every top-level statement of the source parses.                         *)
AllParse(src) == LET results == Parse(src) IN \A i \in 1..Len(results) : results[i].ok

(* C19: replace with one command FunctionByName(n) -> Name(s) returns the  *)
(* source with s written over the callee token of every matching Call,     *)
(* FunctionDeclaration, Exit and Include, at any depth, and every other    *)
(* byte as it was; in a source that parses these are all identifiers n     *)
(* (or exit, include) that an opening parenthesis follows.                 *)
C19_RenameEveryCallee ==
    (replacer.done /\ Len(replacer.replace) = 1) =>
        LET find == replacer.replace[1].find
            spans == {s.token.position : s \in Matching(replacer.code, find)}
        IN  /\ replacer.result.ok
            /\ replacer.result.code =
                   SpliceAll(replacer.code, spans, replacer.replace[1].with.name)
            /\ AllParse(replacer.code) => spans = CalleeSpans(replacer.code, find.name)

(* A source with a comment and with a matching call in the arguments of a  *)
(* matching call has been rewritten by one command.                        *)
C19_Witness ==
    /\ replacer.done /\ Len(replacer.replace) = 1
    /\ "#" \in {replacer.code[i] : i \in 1..Len(replacer.code)}
    /\ LET m == Matching(replacer.code, replacer.replace[1].find)
       IN  /\ Cardinality(m) >= 4
           /\ \E s \in m : \E x \in SubStatements(s) \ {s} : x \in m
    /\ replacer.result.ok
    /\ replacer.result.code # replacer.code

(* C20: replace with an empty command list returns the source byte for     *)
(* byte, whether the source parses or not.                                 *)
C20_EmptyCommandsIdentity ==
    (replacer.done /\ replacer.replace = <<>>) =>
        replacer.result = [ok |-> TRUE, code |-> replacer.code]

(* A source with a statement that does not parse and with a comment has    *)
(* been given to replace with no command.                                  *)
C20_Witness ==
    /\ replacer.done /\ replacer.replace = <<>>
    /\ ~AllParse(replacer.code)
    /\ "#" \in {replacer.code[i] : i \in 1..Len(replacer.code)}
    /\ replacer.result.ok
    /\ replacer.result.code = replacer.code

(* The command list is a rename by name and the rename back.               *)
IsRoundTrip(r) ==
    /\ Len(r) = 2
    /\ r[1].find.t = "FunctionByName" /\ r[1].with.t = "Name"
    /\ r[2].find.t = "FunctionByName" /\ r[2].with.t = "Name"
    /\ r[2].find.name = r[1].with.name
    /\ r[2].with.name = r[1].find.name

(* C21 as stated: for any source that parses, FunctionByName(original) ->  *)
(* Name(x) followed by FunctionByName(x) -> Name(original) gives the       *)
(* source back.                                                            *)
C21_RoundTrip ==
    (replacer.done /\ IsRoundTrip(replacer.replace) /\ AllParse(replacer.code)) =>
        replacer.result = [ok |-> TRUE, code |-> replacer.code]

(* C21: for any source that parses and in which nothing callable has the   *)
(* name x, FunctionByName(original) -> Name(x) followed by                 *)
(* FunctionByName(x) -> Name(original) gives the source back.              *)
C21_RoundTripFreshName ==
    (/\ replacer.done /\ IsRoundTrip(replacer.replace) /\ AllParse(replacer.code)
     /\ Matching(replacer.code, replacer.replace[2].find) = {}) =>
        replacer.result = [ok |-> TRUE, code |-> replacer.code]

(* A source with three callees of the original name, one in the            *)
(* parameters of another, and none of the new name has been renamed and    *)
(* renamed back.                                                           *)
C21_Witness ==
    /\ replacer.done /\ IsRoundTrip(replacer.replace) /\ AllParse(replacer.code)
    /\ Matching(replacer.code, replacer.replace[2].find) = {}
    /\ LET m == Matching(replacer.code, replacer.replace[1].find)
       IN  /\ Cardinality(m) >= 3
           /\ \E x \in m : \E y \in SubStatements(x) \ {x} : y \in m
    /\ Len(replacer.log) = 2
    /\ replacer.log[1].changed /\ replacer.log[2].changed
    /\ replacer.log[2].code # replacer.code
    /\ replacer.result.code = replacer.code

(* The command list is twice the same rename by name to another name.      *)
IsRenameTwice(r) ==
    /\ Len(r) = 2
    /\ r[1] = r[2]
    /\ r[1].find.t = "FunctionByName" /\ r[1].with.t = "Name"
    /\ r[1].find.name # r[1].with.name

(* C22: FunctionByName(n) -> Name(m) with m # n, applied to the output of  *)
(* the same command, finds nothing to splice and returns that output       *)
(* unchanged.                                                              *)
C22_RenameIdempotent ==
    (replacer.done /\ IsRenameTwice(replacer.replace)) =>
        /\ Len(replacer.log) = 2
        /\ replacer.log[2].log = <<>> /\ ~replacer.log[2].changed
        /\ replacer.result = [ok |-> TRUE, code |-> replacer.log[2].code]

(* The same rename has been applied twice to a source with three callees   *)
(* of that name, and the first application has changed the source.         *)
C22_Witness ==
    /\ replacer.done /\ IsRenameTwice(replacer.replace)
    /\ Cardinality(Matching(replacer.code, replacer.replace[1].find)) >= 3
    /\ Len(replacer.log) = 2
    /\ replacer.log[1].changed /\ Len(replacer.log[1].log) >= 3
    /\ replacer.log[2].code # replacer.code
    /\ replacer.result.code = replacer.log[2].code

(* The statements of the source at any depth.                              *)
AllStatements(src) ==
    LET top == OkStatements(Parse(src))
    IN  UNION {SubStatements(top[i]) : i \in 1..Len(top)}

(* The positions at which the k-th command has spliced.                    *)
SplicedAt(k) ==
    {replacer.log[k].log[i].position : i \in 1..Len(replacer.log[k].log)}

(* C23 as stated: FunctionByName(n) matches every Call whose callee is n   *)
(* and nothing that is neither a Call nor a FunctionDeclaration.           *)
C23_MatchesOnlyCallOrDeclaration ==
    (/\ replacer.done /\ Len(replacer.replace) = 1
     /\ replacer.replace[1].find.t = "FunctionByName") =>
        LET find == replacer.replace[1].find
        IN  \A s \in AllStatements(replacer.code) :
               /\ (s.kind = "Call" /\ s.token.text = find.name) => Matches(find, s)
               /\ Matches(find, s) => s.kind \in {"Call", "FunctionDeclaration"}

(* C23: FunctionByName(n) matches every Call whose callee is n, and the    *)
(* rename splices its callee; what it matches is a Call, a                 *)
(* FunctionDeclaration, an Exit or an Include of the name n.               *)
C23_MatchesByName ==
    (/\ replacer.done /\ Len(replacer.replace) = 1
     /\ replacer.replace[1].find.t = "FunctionByName"
     /\ replacer.replace[1].with.t = "Name") =>
        LET find == replacer.replace[1].find
        IN  \A s \in AllStatements(replacer.code) :
               /\ (s.kind = "Call" /\ s.token.text = find.name) =>
                      Matches(find, s) /\ s.token.position \in SplicedAt(1)
               /\ Matches(find, s) =>
                      /\ s.kind \in {"Call", "FunctionDeclaration", "Exit", "Include"}
                      /\ s.token.text = find.name
                      /\ s.token.position \in SplicedAt(1)

(* A rename by name has been applied to a source with a call and a         *)
(* declaration of that name, a call of a longer name and an exit.          *)
C23_Witness ==
    /\ replacer.done /\ Len(replacer.replace) = 1
    /\ replacer.replace[1].find.t = "FunctionByName"
    /\ replacer.replace[1].with.t = "Name"
    /\ LET find == replacer.replace[1].find
           all == AllStatements(replacer.code)
       IN  /\ \E s \in all : s.kind = "Call" /\ Matches(find, s)
           /\ \E s \in all : s.kind = "FunctionDeclaration" /\ Matches(find, s)
           /\ \E s \in all : s.kind = "Call" /\ ~Matches(find, s)
           /\ \E s \in all : s.kind = "Exit" /\ ~Matches(find, s)
    /\ replacer.log[1].changed

(* The search lists: up to two of a name, a name with a value, an index.   *)
SearchLists ==
    LET wanted == {ParameterName(<<"a">>), ParameterName(<<"b">>),
                   ParameterNameValue(<<"a">>, <<"1">>),
                   ParameterNameValue(<<"b">>, <<"1">>),
                   ParameterIndex(0), ParameterIndex(1), ParameterIndex(2)}
    IN  UNION {[1..n -> wanted] : n \in 0..2}

(* The named parameters of a statement: which are named, and the set of    *)
(* the names with their values.                                            *)
NamedAt(s) ==
    IF s.kind = "Call" THEN {i \in 1..Len(s.args) : s.args[i].kind = "NamedParameter"}
    ELSE IF s.kind = "FunctionDeclaration" THEN 1..Len(s.args)
    ELSE {}
NamedEntries(s) ==
    {<<s.args[i].token.text,
       IF s.kind = "Call" THEN StatementToString(s.args[i].stmts[1]) ELSE <<>>>> :
        i \in NamedAt(s)}

(* The anonymous count: the parameters of a call that are not named, 0     *)
(* for a declaration, 1 for exit and include.                              *)
AnonCount(s) ==
    IF s.kind = "Call" THEN Len(s.args) - Cardinality(NamedAt(s))
    ELSE IF s.kind = "FunctionDeclaration" THEN 0
    ELSE 1

(* The search list ps matches the shape of s.                              *)
ShapeMatches(ps, s) ==
    /\ Len(ps) = Cardinality(NamedAt(s)) + AnonCount(s)
    /\ \A i \in 1..Len(ps) :
          IF ps[i].t = "Name" THEN \E e \in NamedEntries(s) : e[1] = ps[i].name
          ELSE IF ps[i].t = "NameValue" THEN <<ps[i].name, ps[i].value>> \in NamedEntries(s)
          ELSE ps[i].x = AnonCount(s)

Callable(s) == s.kind \in {"Call", "FunctionDeclaration", "Exit", "Include"}

(* C24: a search list ps matches a Call, FunctionDeclaration, Exit or      *)
(* Include exactly when len(ps) is the number of named parameters plus the *)
(* anonymous count and every element is found: a Name among the named      *)
(* keys, a NameValue among the named entries, an Index equal to the        *)
(* anonymous count, which is 0 for a declaration and 1 with nothing named  *)
(* for exit and include; a command that finds by parameter splices exactly *)
(* what matches so (and has the name, if it gives one).                    *)
C24_ParameterShape ==
    replacer.done =>
        /\ Len(replacer.replace) <= 1 =>
               \A s \in {x \in AllStatements(replacer.code) : Callable(x)} :
                  \A ps \in SearchLists :
                     Matches(FunctionByParameter(ps), s) <=> ShapeMatches(ps, s)
        /\ (/\ Len(replacer.replace) >= 1
            /\ replacer.replace[1].find.t # "FunctionByName"
            /\ replacer.replace[1].with.t = "Name") =>
               LET find == replacer.replace[1].find
               IN  SplicedAt(1) =
                       {s.token.position :
                           s \in {x \in AllStatements(replacer.code) :
                                     /\ Callable(x)
                                     /\ ShapeMatches(find.parameter, x)
                                     /\ find.t = "FunctionByNameAndParameter" =>
                                            x.token.text = find.name}}

(* A command that finds by an index has renamed an include and a call      *)
(* with one anonymous parameter, and not the declaration without           *)
(* parameters beside them.                                                 *)
C24_Witness ==
    /\ replacer.done /\ Len(replacer.replace) >= 1
    /\ replacer.replace[1].find = FunctionByParameter(<<ParameterIndex(1)>>)
    /\ LET all == {x \in AllStatements(replacer.code) : Callable(x)}
       IN  /\ \E s \in all : s.kind = "Include" /\ s.token.position \in SplicedAt(1)
           /\ \E s \in all : s.kind = "Call" /\ s.token.position \in SplicedAt(1)
           /\ \E s \in all : /\ s.kind = "FunctionDeclaration"
                             /\ s.token.position \notin SplicedAt(1)
    /\ replacer.log[1].changed

RECURSIVE InsertAll(_, _)
(* The source with each text of ins written in at its offset, the last     *)
(* offset first, so that no offset moves before it is written at.          *)
InsertAll(src, ins) ==
    IF ins = {} THEN src
    ELSE LET last == CHOOSE p \in ins : \A q \in ins : q[1] <= p[1]
         IN  InsertAll(StringReplaceRange(src, last[1], last[1], last[2]), ins \ {last})

(* The text after the k-th command: what the next command starts from, or  *)
(* what replace returns.                                                   *)
TextAfter(k) ==
    IF Len(replacer.log) > k THEN replacer.log[k + 1].code ELSE replacer.result.code

(* The first command is the parameter operation op on what is found by     *)
(* name, and it has run to its end.                                        *)
FirstIs(op) ==
    /\ replacer.done /\ Len(replacer.replace) >= 1
    /\ replacer.replace[1].find.t = "FunctionByName"
    /\ replacer.replace[1].with.t = "Parameter"
    /\ replacer.replace[1].with.op.t = op

(* The calls and declarations the first command finds.                     *)
Found ==
    {s \in Matching(replacer.code, replacer.replace[1].find) :
        s.kind \in {"Call", "FunctionDeclaration"}}

(* The text of a parameter in a call and in a declaration; a declaration   *)
(* has no text for an anonymous one.                                       *)
ParameterText(s, p) ==
    IF s.kind = "Call"
    THEN IF p.t = "Named" THEN p.name \o <<":", " ">> \o p.value ELSE p.value
    ELSE p.name
HasText(s, p) == s.kind = "Call" \/ p.t = "Named"

(* What Push writes in at the closing parenthesis of s.                    *)
Pushed(s, p) ==
    <<s.end[1], (IF s.args = <<>> THEN <<>> ELSE <<",", " ">>) \o ParameterText(s, p)>>

(* C25: Push(p) writes the parameter in immediately before the closing     *)
(* parenthesis of every Call and FunctionDeclaration found: its text alone *)
(* in an empty list, after ", " otherwise; name: value (the value for      *)
(* Anon) in a call, the name in a declaration, nothing for Anon in a       *)
(* declaration; every other byte stays.                                    *)
C25_PushBeforeClosingParenthesis ==
    FirstIs("Push") =>
        LET p == replacer.replace[1].with.op.p
        IN  /\ ~replacer.panic
            /\ TextAfter(1) =
                   InsertAll(replacer.code, {Pushed(s, p) : s \in {x \in Found : HasText(x, p)}})

(* Push of a named parameter has written into a declaration with           *)
(* parameters and into a call without.                                     *)
C25_Witness ==
    /\ FirstIs("Push")
    /\ replacer.replace[1].with.op.p.t = "Named"
    /\ \E s \in Found : s.kind = "FunctionDeclaration" /\ s.args # <<>>
    /\ \E s \in Found : s.kind = "Call" /\ s.args = <<>>
    /\ replacer.log[1].changed
    /\ Len(replacer.log[1].log) = 2

(* What Add writes in for s: before the i-th parameter, or as Push does    *)
(* behind the last one.                                                    *)
Added(s, i, p) ==
    IF i < Len(s.args)
    THEN <<s.args[i + 1].position[1], ParameterText(s, p) \o <<",", " ">>>>
    ELSE Pushed(s, p)

(* C26: Add(i, p) writes the parameter in before the i-th parameter of     *)
(* every Call and FunctionDeclaration found when 0 <= i < len, as Push     *)
(* does when i = len (an empty list with i = 0 included), and leaves what  *)
(* has fewer than i parameters as it is; Anon is ignored on a              *)
(* declaration.                                                            *)
C26_AddAtIndex ==
    FirstIs("Add") =>
        LET p == replacer.replace[1].with.op.p
            i == replacer.replace[1].with.op.i
        IN  /\ ~replacer.panic
            /\ TextAfter(1) =
                   InsertAll(replacer.code,
                             {Added(s, i, p) :
                                 s \in {x \in Found : HasText(x, p) /\ i <= Len(x.args)}})

(* Add has written before a parameter of one call found and has left       *)
(* another, with fewer parameters than the index, as it is.                *)
C26_Witness ==
    /\ FirstIs("Add")
    /\ LET i == replacer.replace[1].with.op.i
       IN  /\ \E s \in Found : i < Len(s.args)
           /\ \E s \in Found : i > Len(s.args)
    /\ replacer.log[1].changed

Disjoint(a, b) == a[2] <= b[1] \/ b[2] <= a[1]

(* The parameter of s that RemoveNamed(n) or Remove(i) removes, as its     *)
(* index from 1, 0 for none.                                               *)
RemovedIndex(s, op) ==
    IF op.t = "Remove" THEN (IF op.i < Len(s.args) THEN op.i + 1 ELSE 0)
    ELSE LET named == {k \in 1..Len(s.args) :
                          /\ s.args[k].kind \in {"Variable", "NamedParameter"}
                          /\ s.args[k].token.text = op.name}
         IN  IF named = {} THEN 0 ELSE CHOOSE k \in named : \A m \in named : k <= m

(* The span to delete with the k-th parameter of s: up to the next         *)
(* parameter when one follows, from the end of the one before when it is   *)
(* the last, the parameter alone when it is the only one.                  *)
RemovedSpan(s, k) ==
    IF Len(s.args) = 1 THEN s.args[k].position
    ELSE IF k < Len(s.args) THEN <<s.args[k].position[1], s.args[k + 1].position[1]>>
    ELSE <<s.args[k - 1].position[2], s.args[k].position[2]>>

(* The spans the first command, a RemoveNamed or a Remove, has to delete.  *)
RemovedSpans ==
    LET op == replacer.replace[1].with.op
    IN  {RemovedSpan(s, RemovedIndex(s, op)) : s \in {x \in Found : RemovedIndex(x, op) > 0}}

(* C27: RemoveNamed(n) and Remove(i) delete the parameter with exactly one *)
(* adjacent comma and the whitespace between, the trailing one when a      *)
(* parameter follows, the leading one when it is the last, none when it is *)
(* the only one, and no parenthesis, whatever follows the closing          *)
(* parenthesis of the call; checked where no parameter to delete lies in   *)
(* another.                                                                *)
C27_RemoveOneComma ==
    ((FirstIs("RemoveNamed") \/ FirstIs("Remove"))
     /\ \A a, b \in RemovedSpans : a = b \/ Disjoint(a, b)) =>
        /\ ~replacer.panic
        /\ TextAfter(1) = SpliceAll(replacer.code, RemovedSpans, <<>>)

(* C28: within one command, range_with_offset maps the position of every   *)
(* splice that lies outside what the command has spliced before to the     *)
(* range of the current text that holds the same bytes.                    *)
C28_RangeWithOffsetTracks ==
    replacer.done =>
        \A k \in 1..Len(replacer.log) :
           \A j \in 1..Len(replacer.log[k].log) :
              LET e == replacer.log[k].log[j]
              IN  (\A i \in 1..(j - 1) : Disjoint(e.position, replacer.log[k].log[i].span)) =>
                     /\ InRange(e.code, e.range)
                     /\ SubSeq(e.code, e.range[1] + 1, e.range[2])
                            = SubSeq(replacer.log[k].code, e.position[1] + 1, e.position[2])

(* Every command has run: none has panicked.                               *)
AllCommandsRun == replacer.done /\ ~replacer.panic /\ replacer.result.ok

(* The commands are applied in the order of the list, each to the text     *)
(* the commands before it have produced, with offsets of its own: the      *)
(* text after command k is what replace gives for the text before it and   *)
(* command k alone.                                                        *)
InListOrder ==
    /\ Len(replacer.log) = Len(replacer.replace)
    /\ Len(replacer.log) > 0 => replacer.log[1].code = replacer.code
    /\ \A k \in 1..Len(replacer.log) :
          /\ TextAfter(k) = Replace(replacer.log[k].code, <<replacer.replace[k]>>).code
          /\ replacer.log[k].changed <=> \E i \in 1..Len(replacer.log[k].log) : TRUE

(* The first command pushes the named parameter x to what is named ab.     *)
PushesX ==
    /\ Len(replacer.replace) >= 2
    /\ replacer.replace[1] = ReplaceCommand(FunctionByName(NameAb), ReplaceParameter(Push(NamedX)))

(* What the command after the push of x does with the pushed parameter:    *)
(* Rename gives the text a push of y would have given, RemoveNamed         *)
(* splices at every pushed x, the search for the parameter x finds the     *)
(* calls that had no parameter before.                                     *)
PushedIsSeen ==
    LET with == replacer.replace[2].with
        find == replacer.replace[2].find
    IN  /\ (with.t = "Parameter" /\ with.op.t = "Rename") =>
               TextAfter(2) =
                   InsertAll(replacer.code,
                             {Pushed(s, ParameterNamed(with.op.new, NamedX.value)) : s \in Found})
        /\ (with.t = "Parameter" /\ with.op.t = "RemoveNamed") =>
               Len(replacer.log[2].log) = Cardinality(Found)
        /\ find.t = "FunctionByNameAndParameter" =>
               Len(replacer.log[2].log) = Cardinality({s \in Found : s.args = <<>>})

(* C29 as stated: the commands are applied in list order, each to the      *)
(* text of the commands before; the source is parsed again exactly when    *)
(* the command before has changed the text; a pushed parameter is seen by  *)
(* the next command.                                                       *)
C29_ReparsedExactlyWhenChanged ==
    AllCommandsRun =>
        /\ InListOrder
        /\ \A k \in 2..Len(replacer.log) :
              replacer.log[k].parsed <=> replacer.log[k - 1].changed
        /\ PushesX => PushedIsSeen

(* C29: the commands are applied in list order, each to the text of the    *)
(* commands before and with offsets of its own; the source is parsed for   *)
(* the first command, and again for a later one exactly when the command   *)
(* before has changed the text or no statement of the text has parsed; a   *)
(* pushed parameter is found, renamed and removed by the next command.     *)
C29_CommandsInOrder ==
    AllCommandsRun =>
        /\ InListOrder
        /\ Len(replacer.log) > 0 => replacer.log[1].parsed
        /\ \A k \in 2..Len(replacer.log) :
              replacer.log[k].parsed <=>
                  \/ replacer.log[k - 1].changed
                  \/ OkStatements(Parse(replacer.log[k].code)) = <<>>
        /\ PushesX => PushedIsSeen

(* A push of x into a declaration and a call has been followed by the      *)
(* rename of x to y, which has spliced in the text the push has produced.  *)
C29_Witness ==
    /\ AllCommandsRun /\ PushesX
    /\ replacer.replace[2].with.t = "Parameter"
    /\ replacer.replace[2].with.op.t = "Rename"
    /\ \E s \in Found : s.kind = "FunctionDeclaration"
    /\ \E s \in Found : s.kind = "Call"
    /\ replacer.log[1].changed /\ replacer.log[2].changed /\ replacer.log[2].parsed
    /\ Len(replacer.log[2].log) >= 2
    /\ "y" \in {replacer.result.code[i] : i \in 1..Len(replacer.result.code)}

(* The modules of a list that claim a name, by their place in the list.    *)
Claiming(modules, name) == {i \in 1..Len(modules) : name \in modules[i].keys}

(* What the first module of a list that claims the name gives: None when   *)
(* no module claims it.                                                    *)
FirstClaim(modules, name) ==
    LET claiming == Claiming(modules, name)
        first == CHOOSE i \in claiming : \A j \in claiming : i <= j
    IN  IF claiming = {} THEN None ELSE Some(NaslFunction(modules[first].name, name))

(* C30: the register asks its modules in the order they were pushed and    *)
(* the first module that defines the name is the one executed; a name no   *)
(* module defines gives None (undefined); nasl_fn_defined(name) holds      *)
(* exactly when nasl_fn_execute(name) finds a function; the lookup of      *)
(* built_in_functions gives the first module of its chain that knows the   *)
(* name.                                                                   *)
C30_FirstModuleWins ==
    (functions.built /\ functions.last # <<>>) =>
        LET last == functions.last
            first == FirstClaim(functions.executor, last.name)
        IN  /\ last.op = "nasl_fn_execute" =>
                   last.r = IF first = None THEN None ELSE Some(Called(first[1]))
            /\ last.op = "nasl_fn_defined" => (last.r <=> first # None)
            /\ last.op = "lookup" => last.r = FirstClaim(BuiltInModules, last.name)
            /\ \A name \in FunctionNames :
                  RegisterDefined(functions.executor, name) <=>
                      RegisterExecute(functions.executor, name) # None

(* A name two different modules of the register claim, the first of them   *)
(* not at the head of the list, has been executed: the function of the     *)
(* earlier module was called.                                              *)
C30_Witness ==
    /\ functions.built /\ functions.last # <<>>
    /\ functions.last.op = "nasl_fn_execute"
    /\ LET e == functions.executor
           claiming == Claiming(e, functions.last.name)
       IN  /\ 1 \notin claiming
           /\ \E i \in claiming, j \in claiming :
                 /\ i < j /\ e[i].name # e[j].name
                 /\ \A k \in claiming : i <= k
                 /\ functions.last.r = Some(Called(NaslFunction(e[i].name, functions.last.name)))

(* The events made during the resolve of the k-th event: those from the    *)
(* last event before it that is not nested in it.                          *)
NestedEvents(ev, k) ==
    LET outside == {j \in 1..(k - 1) : ev[j].cd <= ev[k].cd}
        from == IF outside = {} THEN 1
                ELSE (CHOOSE j \in outside : \A i \in outside : i <= j) + 1
    IN  SubSeq(ev, from, k - 1)

(* The resolves made directly by the resolve of the k-th event: the events *)
(* nested one resolve deeper.                                              *)
ChildEvents(ev, k) ==
    SelectSeq(NestedEvents(ev, k), LAMBDA x : x.k # "Request" /\ x.cd = ev[k].cd + 1)

(* The children of a Block that yielded Exit, Return, Break or Continue,   *)
(* by their place among the children resolved.                             *)
ControlKids(kids) == {i \in 1..Len(kids) : kids[i].e = "" /\ IsControl(kids[i].v)}

(* The resolved children of a Block are its first children, in order, and  *)
(* a child that yields a control value is the last one resolved and gives  *)
(* the Block its value.                                                    *)
StopsAtControl(b, kids) ==
    /\ Len(kids) <= Len(b.st.c)
    /\ \A i \in 1..Len(kids) : kids[i].st = b.st.c[i]
    /\ \A i \in ControlKids(kids) :
          /\ i = Len(kids)
          /\ b.e = ""
          /\ b.v = kids[i].v

BlockEvents(ev) == {k \in 1..Len(ev) : ev[k].k = "Block" /\ ev[k].how = "eval"}

(* C31 as stated: a Block resolves its children in order, stops at the     *)
(* first child that yields Exit, Return, Break or Continue and returns     *)
(* that value; when no child yields such a value it yields Null.           *)
C31_BlockNullWithoutControl ==
    (driver = "resolve" /\ call.op # "none") =>
        \A k \in BlockEvents(call.ev) :
            LET b == call.ev[k]
                kids == ChildEvents(call.ev, k)
            IN  /\ StopsAtControl(b, kids)
                /\ ControlKids(kids) = {} =>
                      /\ Len(kids) = Len(b.st.c)
                      /\ b.e = "" /\ b.v = Null

(* C31: a Block resolves its children in order and stops at the first      *)
(* child that yields Exit, Return, Break or Continue or that fails; it     *)
(* returns that value or that error; when no child does either, all        *)
(* children are resolved and the Block yields Null.                        *)
C31_BlockStopsAtControlOrError ==
    (driver = "resolve" /\ call.op # "none") =>
        \A k \in BlockEvents(call.ev) :
            LET b == call.ev[k]
                kids == ChildEvents(call.ev, k)
                failed == {i \in 1..Len(kids) : kids[i].e # ""}
            IN  /\ StopsAtControl(b, kids)
                /\ \A i \in failed : i = Len(kids) /\ b.e = kids[i].e
                /\ (ControlKids(kids) = {} /\ failed = {}) =>
                      /\ Len(kids) = Len(b.st.c)
                      /\ b.e = "" /\ b.v = Null

(* A Block of three children has returned the Return of its second child   *)
(* and has not resolved the third: nothing is stored.                      *)
C31_Witness ==
    /\ driver = "resolve" /\ call.op = "resolve"
    /\ \E k \in BlockEvents(call.ev) :
          LET kids == ChildEvents(call.ev, k)
          IN  /\ Len(call.ev[k].st.c) = 3
              /\ Len(kids) = 2
              /\ kids[2].v = NaslReturn(Number(5))
              /\ call.r = Ok(NaslReturn(Number(5)))
    /\ kb = <<>>

IncludeEvents(ev) == {k \in 1..Len(ev) : ev[k].k = "Include" /\ ev[k].how = "eval"}

(* The resolves of the statements of the included file: the children of    *)
(* the Include made by the child interpreter.                              *)
IncludedEvents(ev, k) ==
    SelectSeq(ChildEvents(ev, k), LAMBDA x : x.lvl = ev[k].lvl + 1)

(* The loader has given the Include its code.                              *)
HasLoaded(ev, k) ==
    \E x \in {NestedEvents(ev, k)[j] : j \in 1..Len(NestedEvents(ev, k))} :
        x.k = "Request" /\ x.name = "load" /\ x.cd = ev[k].cd + 1 /\ x.e = ""

(* The file of an Include: the code under the key its name has given.      *)
IncludedFile(ev, k) == FileCode(ChildEvents(ev, k)[1].v.s)

(* C32: an Include resolves the statements of the loaded file in order in  *)
(* a child interpreter; the first error, a syntax error as                 *)
(* IncludeSyntaxError, is what the Include returns and no later statement  *)
(* of the file is resolved; when nothing fails it yields Null and the      *)
(* register of the including interpreter is the child's, with every        *)
(* binding the file has made.                                              *)
C32_IncludeStopsAtFirstError ==
    (driver = "resolve" /\ call.op # "none") =>
        \A k \in IncludeEvents(call.ev) :
            LET b == call.ev[k]
                inc == IncludedEvents(call.ev, k)
                file == IncludedFile(call.ev, k)
                n == Len(inc)
            IN  /\ n > 0 => HasLoaded(call.ev, k)
                /\ n <= Len(file)
                /\ \A i \in 1..n :
                      /\ inc[i].st = file[i]
                      /\ inc[i].e # "" => (i = n /\ b.e = inc[i].e)
                /\ (HasLoaded(call.ev, k) /\ n < Len(file) /\ (n = 0 \/ inc[n].e = "")) =>
                      /\ file[n + 1] = SyntaxErrorItem
                      /\ b.e = "IncludeSyntaxError"
                /\ b.e = "" =>
                      /\ HasLoaded(call.ev, k) /\ n = Len(file)
                      /\ b.v = Null
                      /\ n > 0 => b.reg1 = inc[n].reg1
                      /\ \A i \in 1..n :
                            (/\ inc[i].st.k = "Assign"
                             /\ \A j \in (i + 1)..n : inc[j].st.name # inc[i].st.name) =>
                                Named(b.reg1, inc[i].st.name) = inc[i].v

(* The second statement of an included file of three has failed in the     *)
(* storage: the Include has returned its error, the third statement was    *)
(* not resolved and its binding is not made.                               *)
C32_Witness ==
    /\ driver = "resolve" /\ call.op = "resolve"
    /\ code[call.stmt] = Include(Primitive(String("two")))
    /\ call.r = Err("StorageRetry")
    /\ \E k \in IncludeEvents(call.ev) :
          /\ Len(IncludedFile(call.ev, k)) = 3
          /\ Len(IncludedEvents(call.ev, k)) = 2
          /\ IncludedEvents(call.ev, k)[1].e = ""
    /\ Named(interpreter.registrat, "y") = Null

-----------------------------------------------------------------------------
(* The splices of the commands of a call that have been made.              *)
Splices ==
    UNION {{<<k, j>> : j \in {i \in 1..Len(replacer.log[k].log) :
                                    ~replacer.log[k].log[i].failed}} :
              k \in 1..Len(replacer.log)}

SpliceAt(kj) == replacer.log[kj[1]].log[kj[2]]

(* The length a splice has added to the text.                              *)
Delta(e) == Len(e.text) - Len(e.code)

RECURSIVE DeltasBefore(_, _, _)
(* The sum of the deltas of the first n entries whose split offset is      *)
(* strictly less than start.                                               *)
DeltasBefore(offsets, n, start) ==
    IF n = 0 THEN 0
    ELSE DeltasBefore(offsets, n - 1, start)
            + (IF offsets[n][1] < start THEN offsets[n][2] ELSE 0)

(* What a splice has recorded, given the split offset of a shrink.         *)
Records(e, shrink) ==
    /\ Delta(e) = e.splice[1].new - (e.splice[1].range[2] - e.splice[1].range[1])
    /\ Delta(e) = 0 => e.recorded = e.offsets
    /\ Delta(e) > 0 => /\ e.recorded = Append(e.offsets, <<e.position[1], Delta(e)>>)
                       /\ e.splice[1].previous = e.position
    /\ Delta(e) < 0 => /\ Len(e.recorded) = Len(e.offsets) + 1
                       /\ SubSeq(e.recorded, 1, Len(e.offsets)) = e.offsets
                       /\ e.recorded[Len(e.recorded)][2] = Delta(e)
                       /\ e.recorded[Len(e.recorded)][1] \in shrink
    /\ e.range = <<e.position[1] + DeltasBefore(e.offsets, Len(e.offsets), e.position[1]),
                   e.position[2] + DeltasBefore(e.offsets, Len(e.offsets), e.position[1])>>

-----------------------------------------------------------------------------
(* C34: when a call of resolve has returned, whatever it has returned and  *)
(* whatever the kind of its statement, the index vector of the position    *)
(* cursor is the one it was called with; this holds for the call that has  *)
(* been made and for every call of resolve made within it.                 *)
C34_CursorRestored ==
    driver = "resolve" /\ ended /\ call.op = "resolve" =>
        /\ interpreter.position = call.pre[1].position
        /\ \A i \in 1..Len(call.ev) :
              call.ev[i].k # "Request" => call.ev[i].p1 = call.ev[i].p0


-----------------------------------------------------------------------------
(* The attempts of a call: the events of the calls of resolve that         *)
(* retry_resolve has made for the statement itself.                        *)
Attempts(ev) ==
    {i \in 1..Len(ev) : ev[i].k # "Request" /\ ev[i].lvl = 0 /\ ev[i].cd = 0}

(* C35: retry_resolve_next advances the ordinal of the top-level statement *)
(* by exactly one however often the statement is retried, retry_resolve    *)
(* alone leaves it as it is, and every attempt resolves the statement at   *)
(* the same position of the cursor.                                        *)
C35_OrdinalIndependentOfRetries ==
    driver = "resolve" /\ ended =>
        /\ call.op = "retry_resolve_next" =>
              interpreter.position[1] = call.pre[1].position[1] + 1
        /\ call.op = "retry_resolve" =>
              interpreter.position[1] = call.pre[1].position[1]
        /\ call.op \in {"retry_resolve", "retry_resolve_next"} =>
              \A i, j \in Attempts(call.ev) : call.ev[i].p0 = call.ev[j].p0


-----------------------------------------------------------------------------
(* The Includes of a call that have failed.                                *)
FailedIncludes(ev) == {k \in IncludeEvents(ev) : ev[k].e # ""}

(* C36 as stated: when an Include fails, by the loader, by a syntax error  *)
(* or by an included statement, the register of the including interpreter  *)
(* is the one it was before the Include.                                   *)
C36_FailedIncludeRestoresRegister ==
    (driver = "resolve" /\ call.op # "none") =>
        \A k \in FailedIncludes(call.ev) : call.ev[k].reg1 = call.ev[k].reg0

(* C36, amended: when an Include fails, the register of the including      *)
(* interpreter is the one the resolve of the name has left, which is the   *)
(* one before the Include when the name is a literal; nothing an included  *)
(* statement has bound is in it; and a retry of a top-level Include of a   *)
(* literal starts from the register the first attempt started from.        *)
C36_FailedIncludeKeepsRegisterOfName ==
    (driver = "resolve" /\ call.op # "none") =>
        /\ \A k \in FailedIncludes(call.ev) :
              /\ call.ev[k].reg1 = ChildEvents(call.ev, k)[1].reg1
              /\ call.ev[k].st.c[1].k = "Primitive" => call.ev[k].reg1 = call.ev[k].reg0
        /\ \A i, j \in Attempts(call.ev) \cap IncludeEvents(call.ev) :
              call.ev[i].st.c[1].k = "Primitive" => call.ev[i].reg0 = call.ev[j].reg0

(* C36: the first statement of an included file has bound x in the child,  *)
(* the second has failed in the storage with a retriable error, and the    *)
(* retry has started from the register of the first attempt, in which x    *)
(* is not bound to the value of the file.                                  *)
C36_Witness ==
    /\ driver = "resolve" /\ call.op = "retry_resolve" /\ call.n = 1
    /\ code[call.stmt] = Include(Primitive(String("two")))
    /\ \E i \in Attempts(call.ev) \cap FailedIncludes(call.ev),
          j \in Attempts(call.ev) \cap IncludeEvents(call.ev) :
          /\ i < j
          /\ call.ev[i].e = "StorageRetry"
          /\ Len(IncludedEvents(call.ev, i)) = 2
          /\ IncludedEvents(call.ev, i)[1].reg1 # call.ev[i].reg0
          /\ call.ev[j].reg0 = call.ev[i].reg0
          /\ Named(call.ev[j].reg0, "x") # Number(1)


-----------------------------------------------------------------------------
(* The feed-version steps an Update has made: every one starts with the    *)
(* load of plugin_feed_info.inc.                                           *)
FeedVersionSteps(u) ==
    {i \in 1..Len(u.log) : u.log[i].op = "load" /\ u.log[i].key = FeedInfoKey}

(* C37: an Update makes the feed-version step exactly once, in the first   *)
(* next() that finds the verifier exhausted, whether the step succeeds or  *)
(* fails; every later next() returns None and neither loads nor            *)
(* dispatches.                                                             *)
C37_FeedVersionStepOnce ==
    /\ [](driver = "update" =>
             /\ Cardinality(FeedVersionSteps(update)) =
                   (IF update.feed_version_set THEN 1 ELSE 0)
             /\ update.feed_version_set =>
                   /\ update.verifier = <<>>
                   /\ \E i \in 1..Len(update.out) :
                         /\ update.out[i].key = FeedInfoKey
                         /\ \A j \in 1..Len(update.out) :
                               update.out[j].key = FeedInfoKey => j = i)
    /\ [][driver = "update" =>
             /\ (Find(update.verifier) = 0 /\ ~update.feed_version_set) =>
                   /\ update'.feed_version_set
                   /\ Len(update'.out) = Len(update.out) + 1
                   /\ update'.out[Len(update'.out)].key = FeedInfoKey
             /\ update.feed_version_set =>
                   /\ update'.log = update.log
                   /\ update'.out = update.out
                   /\ ended']_vars

(* C37: the feed-version step has failed in the loader, and a later next() *)
(* has returned None.                                                      *)
C37_Witness ==
    /\ driver = "update" /\ ended
    /\ update.feed_version_set
    /\ Len(update.files) > 0
    /\ update.out # <<>>
    /\ ~update.out[Len(update.out)].ok
    /\ update.out[Len(update.out)].key = FeedInfoKey


-----------------------------------------------------------------------------
(* The calls of description_script_finished made for an entry of the       *)
(* verifier, and the calls of single made for it.                          *)
FinishedCalls(u, item) ==
    {i \in 1..Len(u.log) : u.log[i].op = "description_script_finished"
                               /\ u.log[i].item = item}
SingleCalls(u, item) == {k \in 1..Len(u.single) : u.single[k].item = item}

(* C38: description_script_finished is called once for every run of a      *)
(* script that yields Exit and never for a run that ends with an error or  *)
(* without exit; the run of a script with an exit is reported as           *)
(* successful when the call succeeds and as failed when it fails.          *)
C38_FinishedOncePerExit ==
    driver = "update" =>
        \A k \in 1..Len(update.single) :
            LET c == update.single[k]
                exits == c.item.load = "Ok" /\ c.item.script = ExitScript
            IN  /\ Cardinality(FinishedCalls(update, c.item)) =
                      (IF exits THEN Cardinality(SingleCalls(update, c.item)) ELSE 0)
                /\ exits => /\ ~c.panic
                            /\ c.r.ok <=> update.dispatcher = "Ok"


-----------------------------------------------------------------------------
(* C39: every range a command hands to a splice, for a match at the top of *)
(* the source or nested in another match, lies in the text as it is then:  *)
(* 0 <= start <= end <= length; no splice panics.                          *)
C39_TranslatedRangeInText ==
    driver = "replace" /\ replacer.done =>
        /\ ~replacer.panic
        /\ \A k \in 1..Len(replacer.log) :
              \A j \in 1..Len(replacer.log[k].log) :
                 /\ ~replacer.log[k].log[j].failed
                 /\ InRange(replacer.log[k].log[j].code, replacer.log[k].log[j].range)


-----------------------------------------------------------------------------
(* SpecScanner: the openvas Scanner under concurrent calls.  running is    *)
(* the map behind the Mutex, as the sequence of its (id, dbid) entries;    *)
(* every lock().unwrap() section is one step.  A call is a task with its   *)
(* operation, its scan id, the place it has reached ("panicked" when it    *)
(* has panicked and returns nothing), the dbid it holds,                   *)
(* and as history whether the entry was there when it started, whether it  *)
(* removed the entry, whether it released the namespace, and what it       *)
(* returned.  scans is the map at the start, released the namespaces       *)
(* released so far.  What the openvas process, Redis and the collected     *)
(* status answer is chosen freely at each step.                            *)

ScanIds == {"s1", "s2"}
DbIds == {1, 2}

(* impl From<OpenvasError> for ScanError: every OpenvasError becomes       *)
(* ScanError::Unexpected with the text of the error.                       *)
FromOpenvasError(value) == [t |-> "Unexpected", text |-> value]
ScanErrorUnexpected(text) == [t |-> "Unexpected", text |-> text]
ScanOk == [t |-> "Ok", text |-> ""]
NoResult == [t |-> "none", text |-> ""]

(* HashMap::get on running: <<dbid>> for Some, <<>> for None.              *)
RunningGet(running, id) ==
    LET hits == {i \in 1..Len(running) : running[i].id = id}
    IN  IF hits = {} THEN <<>> ELSE <<running[CHOOSE i \in hits : TRUE].dbid>>

(* RemoveRunning(running, id) that looks the entry up and leaves it in the *)
(* map.                                                                    *)
RemoveRunningKept(running, id) ==
    [ret |-> RunningGet(running, id), running |-> running]

(* Scanner::remove_running: HashMap::remove under the lock.                *)
RemoveRunning(running, id) ==
    [ret |-> RunningGet(running, id),
     running |-> SelectSeq(running, LAMBDA e : e.id # id)]

ScanCall(op, id) ==
    [op |-> op, id |-> id, pc |-> "start", dbid |-> 0, found |-> FALSE,
     removed |-> FALSE, released |-> FALSE, r |-> NoResult]

(* The maps add_running can have built: at most one entry per scan id.     *)
RunningMaps ==
    {<<>>}
        \cup {<<[id |-> "s1", dbid |-> d]>> : d \in DbIds}
        \cup {<<[id |-> "s1", dbid |-> d], [id |-> "s2", dbid |-> 3 - d]>> : d \in DbIds}

InitScanner ==
    /\ code = <<>>
    /\ lexer = 0
    /\ interpreter = InterpreterNew(RegisterDefault, ContextNew(FALSE))
    /\ statement = 0
    /\ kb = <<>>
    /\ plan = <<>>
    /\ driver = "scanner"
    /\ ended = FALSE
    /\ trace = <<>>
    /\ call = NoCall
    /\ update = NoUpdate
    /\ replacer = NoReplacer
    /\ functions = NoFunctions
    /\ \E m \in RunningMaps,
          c \in UNION {[1..n -> {ScanCall(op, id) : op \in {"stop_scan", "delete_scan"},
                                                    id \in ScanIds}] :
                          n \in 1..MaxScanCalls} :
          scanner = [NoScanner EXCEPT !.running = m, !.scans = m, !.calls = c]

(* A call returns.                                                         *)
Returns(c, r) == [c EXCEPT !.pc = "done", !.r = r]

ScannerStep(calls, running, released) ==
    /\ scanner' = [scanner EXCEPT !.calls = calls, !.running = running,
                                  !.released = released]
    /\ UNCHANGED <<code, lexer, interpreter, statement, kb, plan, driver, ended, trace,
                   call, update, replacer, functions>>

(* stop_scan: remove_running(scan_id), ScanNotFound for None.              *)
StopRemove ==
    \E t \in 1..Len(scanner.calls) :
        /\ driver = "scanner"
        /\ scanner.calls[t].op = "stop_scan" /\ scanner.calls[t].pc = "start"
        /\ LET c == scanner.calls[t]
               rm == RemoveRunning(scanner.running, c.id)
           IN  ScannerStep([scanner.calls EXCEPT ![t] =
                               IF rm.ret = <<>>
                               THEN Returns(c, FromOpenvasError("ScanNotFound"))
                               ELSE [c EXCEPT !.pc = "stopping", !.dbid = rm.ret[1],
                                              !.found = TRUE, !.removed = TRUE]],
                           rm.running, scanner.released)

(* stop_scan: cmd::stop(..)?.wait()? and scan.wait()?; a CmdError leaves   *)
(* the call.                                                               *)
StopWait ==
    \E t \in 1..Len(scanner.calls) :
        /\ driver = "scanner"
        /\ scanner.calls[t].op = "stop_scan" /\ scanner.calls[t].pc = "stopping"
        /\ \E ok \in BOOLEAN :
              ScannerStep([scanner.calls EXCEPT ![t] =
                              IF ok THEN [@ EXCEPT !.pc = "releasing"]
                              ELSE Returns(@, FromOpenvasError("CmdError"))],
                          scanner.running, scanner.released)

(* stop_scan and delete_scan: redis_help.release() on the namespace of the *)
(* dbid the call holds, then Ok(()).  stop_scan opens its connection to    *)
(* Redis here, and create_redis_connector panics when it cannot.           *)
Release ==
    \E t \in 1..Len(scanner.calls) :
        /\ driver = "scanner"
        /\ scanner.calls[t].pc = "releasing"
        /\ \E redis \in {"Ok", "ReleaseError"}
                  \cup (IF scanner.calls[t].op = "stop_scan" THEN {"panic"} ELSE {}) :
              ScannerStep([scanner.calls EXCEPT ![t] =
                              IF redis = "Ok" THEN Returns([@ EXCEPT !.released = TRUE], ScanOk)
                              ELSE IF redis = "panic" THEN [@ EXCEPT !.pc = "panicked"]
                              ELSE Returns(@, ScanErrorUnexpected("release"))],
                          scanner.running,
                          IF redis = "Ok" THEN Append(scanner.released, scanner.calls[t].dbid)
                          ELSE scanner.released)

(* delete_scan: running.lock()?.get(scan_id), ScanNotFound for None.       *)
DeleteGet ==
    \E t \in 1..Len(scanner.calls) :
        /\ driver = "scanner"
        /\ scanner.calls[t].op = "delete_scan" /\ scanner.calls[t].pc = "start"
        /\ LET c == scanner.calls[t]
               got == RunningGet(scanner.running, c.id)
           IN  ScannerStep([scanner.calls EXCEPT ![t] =
                               IF got = <<>>
                               THEN Returns(c, FromOpenvasError("ScanNotFound"))
                               ELSE [c EXCEPT !.pc = "collecting", !.dbid = got[1],
                                              !.found = TRUE]],
                           scanner.running, scanner.released)

(* delete_scan: create_redis_connector, which panics when it cannot        *)
(* connect, collect_scan_status, Phase::from_str, and the refusal to       *)
(* delete a running scan.                                                  *)
DeleteStatus ==
    \E t \in 1..Len(scanner.calls) :
        /\ driver = "scanner"
        /\ scanner.calls[t].op = "delete_scan" /\ scanner.calls[t].pc = "collecting"
        /\ \E status \in {"panic", "CollectError", "Invalid", "Running", "Stopped",
                           "Succeeded"} :
              ScannerStep([scanner.calls EXCEPT ![t] =
                              IF status = "panic" THEN [@ EXCEPT !.pc = "panicked"]
                              ELSE IF status = "CollectError"
                              THEN Returns(@, ScanErrorUnexpected("collect_scan_status"))
                              ELSE IF status = "Invalid"
                              THEN Returns(@, ScanErrorUnexpected("Invalid Phase status"))
                              ELSE IF status = "Running"
                              THEN Returns(@, ScanErrorUnexpected("Not allowed to delete"))
                              ELSE [@ EXCEPT !.pc = "removing"]],
                          scanner.running, scanner.released)

(* delete_scan: remove_running(scan_id), ScanNotFound for None.            *)
DeleteRemove ==
    \E t \in 1..Len(scanner.calls) :
        /\ driver = "scanner"
        /\ scanner.calls[t].op = "delete_scan" /\ scanner.calls[t].pc = "removing"
        /\ LET c == scanner.calls[t]
               rm == RemoveRunning(scanner.running, c.id)
           IN  ScannerStep([scanner.calls EXCEPT ![t] =
                               IF rm.ret = <<>>
                               THEN Returns(c, FromOpenvasError("ScanNotFound"))
                               ELSE [c EXCEPT !.pc = "releasing", !.removed = TRUE]],
                           rm.running, scanner.released)

NextScanner ==
    \/ StopRemove
    \/ StopWait
    \/ Release
    \/ DeleteGet
    \/ DeleteStatus
    \/ DeleteRemove

SpecScanner == InitScanner /\ [][NextScanner]_vars

-----------------------------------------------------------------------------
(* The calls that have removed the entry of a scan id.                     *)
Removers(id) ==
    {t \in 1..Len(scanner.calls) : scanner.calls[t].id = id /\ scanner.calls[t].removed}

(* C40: however stop_scan and delete_scan calls for a scan id interleave,  *)
(* at most one of them removes the entry of the id, and only that one      *)
(* releases a namespace, the one of the entry; every other call returns    *)
(* an error and releases nothing, the error being ScanNotFound when the    *)
(* entry was gone at its start, and for stop_scan always; an id that is    *)
(* not in the map has no remover, and an entry stays in the map as it was  *)
(* unless a call for its id has removed it.                                *)
C40_AtMostOneRemoves ==
    driver = "scanner" =>
        /\ \A id \in ScanIds :
              /\ Cardinality(Removers(id)) <= 1
              /\ RunningGet(scanner.scans, id) = <<>> => Removers(id) = {}
              /\ RunningGet(scanner.running, id) =
                    (IF Removers(id) = {} THEN RunningGet(scanner.scans, id) ELSE <<>>)
        /\ Len(scanner.released) =
              Cardinality({t \in 1..Len(scanner.calls) : scanner.calls[t].released})
        /\ \A t \in 1..Len(scanner.calls) :
              LET c == scanner.calls[t]
              IN  /\ c.released =>
                        /\ c.removed
                        /\ <<c.dbid>> = RunningGet(scanner.scans, c.id)
                        /\ \E i \in 1..Len(scanner.released) : scanner.released[i] = c.dbid
                  /\ (c.pc = "done" /\ ~c.removed) =>
                        /\ c.r.t # "Ok"
                        /\ ~c.released
                        /\ (~c.found \/ c.op = "stop_scan") =>
                              c.r = FromOpenvasError("ScanNotFound")
                  /\ (c.pc = "done" /\ c.r.t = "Ok") => c.removed /\ c.released

(* C40: a delete_scan has found the entry, a stop_scan for the same id has *)
(* then removed it and released its namespace, and the delete_scan has     *)
(* returned ScanNotFound without releasing anything.                       *)
C40_Witness ==
    /\ driver = "scanner"
    /\ \E s, d \in 1..Len(scanner.calls) :
          /\ scanner.calls[s].op = "stop_scan" /\ scanner.calls[d].op = "delete_scan"
          /\ scanner.calls[s].id = scanner.calls[d].id
          /\ scanner.calls[s].removed /\ scanner.calls[s].released
          /\ scanner.calls[s].r = ScanOk
          /\ scanner.calls[d].found /\ scanner.calls[d].pc = "done"
          /\ ~scanner.calls[d].removed
          /\ scanner.calls[d].r = FromOpenvasError("ScanNotFound")
          /\ Len(scanner.released) = 1

====
